---- MODULE Spec2Model ----
(***************************************************************************)
(* Chat orchestration and token-streaming pipeline of rust_ai_experiments. *)
(*                                                                         *)
(* The model has two kinds of handler task: "rest" runs ChatService::chat  *)
(* (POST /api/chat), "ws" runs handle_socket (GET /ws/chat) together with  *)
(* the generation task it spawns.  Both call ChatService::prepare_chat.    *)
(* Every await on the store, the socket, the channel or the model is one   *)
(* step; the code between two awaits belongs to the step before it.        *)
(***************************************************************************)
EXTENDS Integers, Sequences, FiniteSets, TLC

(***************************************************************************)
(* Bounds of the model.                                                    *)
(***************************************************************************)
\* requests a client sends over one WebSocket connection
MaxTurns == 1
\* requests a client sends to POST /api/chat
MaxRequests == 1
\* items the model's response stream yields in one streamed turn
MaxItems == 2
\* frames a client sends over the connection of a session of several requests
SessionTurns == 2
\* text fragments a long generation yields beyond the channel's capacity
ExtraFragments == 2
\* messages the browser client sends, each over a WebSocket of its own
MaxStreams == 2
\* stream_chunk events the server sends to the browser client in one stream
MaxChunks == 1

(***************************************************************************)
(* Program constants.                                                      *)
(***************************************************************************)
MAX_MESSAGE_LENGTH == 8000
TITLE_CHARS == 60
CHANNEL_CAPACITY == 64

(***************************************************************************)
(* Text.  A String is kept run-length encoded: a sequence of runs          *)
(* <<c, n>>, n >= 1 copies of the character c, no two adjacent runs of the *)
(* same character.  " " is whitespace; "a" and "b" are ASCII letters;      *)
(* "E2" is a two-byte character (U+00E9); "DOTS" is the ellipsis U+2026,   *)
(* three bytes in UTF-8.                                                   *)
(***************************************************************************)
Chars == {" ", "a", "b", "E2", "DOTS"}

utf8_width(c) == CASE c = "E2" -> 2 [] c = "DOTS" -> 3 [] OTHER -> 1

is_whitespace(c) == c = " "

Run(c, n) == <<c, n>>

Text(c, n) == IF n = 0 THEN <<>> ELSE <<Run(c, n)>>

\* str::len(): the length in bytes
RECURSIVE len(_)
len(s) == IF s = <<>> THEN 0 ELSE utf8_width(s[1][1]) * s[1][2] + len(Tail(s))

\* str::chars().count(): the length in characters
RECURSIVE chars_count(_)
chars_count(s) == IF s = <<>> THEN 0 ELSE s[1][2] + chars_count(Tail(s))

\* String::push_str / format!("{}{}"): concatenation
push_str(s, t) ==
    IF s = <<>> THEN t
    ELSE IF t = <<>> THEN s
    ELSE IF s[Len(s)][1] = t[1][1]
         THEN SubSeq(s, 1, Len(s) - 1)
              \o <<Run(t[1][1], s[Len(s)][2] + t[1][2])>>
              \o Tail(t)
         ELSE s \o t

\* str::trim(): without leading and trailing whitespace
trim(s) ==
    LET a == IF s # <<>> /\ is_whitespace(s[1][1]) THEN Tail(s) ELSE s
    IN  IF a # <<>> /\ is_whitespace(a[Len(a)][1])
        THEN SubSeq(a, 1, Len(a) - 1) ELSE a

\* chars().take(k).collect::<String>(): the first k characters
RECURSIVE chars_take(_, _)
chars_take(s, k) ==
    IF s = <<>> \/ k = 0 THEN <<>>
    ELSE IF s[1][2] >= k THEN <<Run(s[1][1], k)>>
    ELSE <<s[1]>> \o chars_take(Tail(s), k - s[1][2])

\* a title cut from the utterance as it came, untrimmed
derive_title_untrimmed(message) ==
    IF chars_count(message) > TITLE_CHARS
    THEN push_str(chars_take(message, TITLE_CHARS), Text("DOTS", 1))
    ELSE message

\* the title prepare_chat derives from the utterance
derive_title(message) ==
    LET t == trim(message)
    IN  IF chars_count(t) > TITLE_CHARS
        THEN push_str(chars_take(t, TITLE_CHARS), Text("DOTS", 1))
        ELSE t

(***************************************************************************)
(* Message roles and their text encoding in the messages table.           *)
(***************************************************************************)
MessageRole == {"User", "Assistant", "System"}

as_str(role) ==
    CASE role = "User" -> "USER"
      [] role = "Assistant" -> "ASSISTANT"
      [] role = "System" -> "SYSTEM"

\* str::to_uppercase on the role texts a row can hold
to_uppercase(s) ==
    CASE s = "user" -> "USER"
      [] s = "assistant" -> "ASSISTANT"
      [] s = "system" -> "SYSTEM"
      [] OTHER -> s

\* MessageRole::try_from: "Err" for an unknown role text
try_from(s) ==
    LET u == to_uppercase(s)
    IN  CASE u = "USER" -> "User"
          [] u = "ASSISTANT" -> "Assistant"
          [] u = "SYSTEM" -> "System"
          [] OTHER -> "Err"

(***************************************************************************)
(* Errors (AppError) and the requests a client can send.                   *)
(***************************************************************************)
\* the variants of AppError
AppErrorKinds ==
    {"DatabaseConnectionFailed", "DatabaseQueryFailed", "RecordNotFound",
     "OllamaUnavailable", "ModelNotFound", "InferenceError", "EmptyField",
     "FieldTooLong", "ConversationNotFound", "Unexpected"}

NoError == [kind |-> "Ok", max_length |-> 0, actual_length |-> 0]

AppError(kind) == [kind |-> kind, max_length |-> 0, actual_length |-> 0]

FieldTooLong(max, actual) ==
    [kind |-> "FieldTooLong", max_length |-> max, actual_length |-> actual]

\* Option<String>: <<>> is None, <<id>> is Some(id)
None == <<>>
Some(id) == <<id>>

\* an id a client made up: no uuid the server generates equals it
GhostId == 0 - 1

\* the utterances sent to POST /api/chat
Utterances ==
    { <<>>,
      Text(" ", 3),
      Text(" ", MAX_MESSAGE_LENGTH + 1),
      Text("a", 5),
      <<Run(" ", 1), Run("a", 2), Run(" ", 1)>>,
      Text("a", TITLE_CHARS),
      Text("a", TITLE_CHARS + 1),
      <<Run("E2", TITLE_CHARS), Run("b", 1)>>,
      Text("a", MAX_MESSAGE_LENGTH),
      Text("a", MAX_MESSAGE_LENGTH + 1),
      Text("E2", MAX_MESSAGE_LENGTH \div 2),
      <<Run("E2", MAX_MESSAGE_LENGTH \div 2), Run("a", 1)>> }

\* the utterances sent over the WebSocket
StreamUtterances ==
    { Text(" ", 3), Text("a", 5), Text("a", MAX_MESSAGE_LENGTH + 1) }

\* the text fragments the model's response stream yields
Fragments == { Text("a", 1), Text("b", 1) }

(***************************************************************************)
(* State.                                                                  *)
(***************************************************************************)
Procs == {"ws", "rest"}

VARIABLES
    \* the store
    conversations,  \* rows of table conversations
    messages,       \* rows of table messages, in the order they were inserted
    clock,          \* the wall clock Utc::now() reads
    uuids,          \* how many uuids Uuid::new_v4() has generated
    \* one handler task per element of Procs
    pc,             \* where the task is
    left,           \* requests the client still sends to the task
    frame,          \* what socket.recv() returned last: kind of frame
    turn,           \* requests the task has received
    before,         \* the store as it was when the current request arrived
    prepared,       \* what prepare_chat returned for the current request
    request,        \* ChatRequest: conversation_id, message
    conversation_id,\* prepare_chat's conversation_id
    user_message,   \* prepare_chat's user_message (a Message)
    conv,           \* prepare_chat's conv (a Conversation)
    history,        \* ChatContext::history
    agent_call,     \* what the task handed to the model: to_rig_history's result
    assistant_message, \* the assistant Message built for this turn
    bind_now,       \* the Utc::now() update_timestamp has bound to its query
    response,       \* the HTTP response of POST /api/chat
    \* the WebSocket connection
    connected,      \* the client is there: socket.send succeeds
    disconnected_in,\* when the client went away ("never" if it has not)
    turn_events,    \* events the client received in the current turn
    full_content,   \* handle_socket's accumulator
    \* the channel and the generation task
    chan,           \* the fragments in the channel
    stream_pc,      \* where the generation task is
    stream_result,  \* what the generation task returned
    pending,        \* the fragment tx.send is about to push
    items,          \* items the response stream has yielded in this turn
    script,         \* what the response stream yields: "free" or "long"
    generated,      \* text fragments the response stream yielded in this turn
    pushed,         \* fragments tx.send accepted in this turn
    taken,          \* fragments rx.recv returned in this turn
    \* the browser client: AppState's signals, its WebSockets, its HTTP calls
    app_conversations,   \* AppState::conversations: the ids the sidebar lists
    active_conversation, \* AppState::active_conversation
    app_messages,        \* AppState::messages: the displayed message list
    streaming_text,      \* AppState::streaming_text
    is_streaming,        \* AppState::is_streaming
    error,               \* AppState::error
    sockets,             \* the calls of start_streaming, each with its WebSocket
    fetches              \* the HTTP calls spawn_local has not finished

store_vars == <<conversations, messages, clock, uuids>>
task_vars == <<pc, left, frame, turn, before, prepared, request, conversation_id,
               user_message, conv, history, agent_call, assistant_message,
               bind_now, response>>
socket_vars == <<connected, disconnected_in, turn_events, full_content>>
stream_vars == <<chan, stream_pc, stream_result, pending, items,
                 script, generated, pushed, taken>>
server_vars == <<store_vars, task_vars, socket_vars, stream_vars>>
client_vars == <<app_conversations, active_conversation, app_messages,
                 streaming_text, is_streaming, error, sockets, fetches>>
vars == <<server_vars, client_vars>>

(***************************************************************************)
(* Records.                                                                *)
(***************************************************************************)
\* Conversation::new: created_at and updated_at are the same reading of the clock
Conversation_new(id, title, now) ==
    [id |-> id, title |-> title, created_at |-> now, updated_at |-> now]

\* Message::new: a fresh uuid and the clock's reading
Message_new(uuid, cid, role, content, now) ==
    [id |-> uuid, conversation_id |-> cid, role |-> role, content |-> content,
     created_at |-> now]

NoMessage == Message_new(0, 0, "None", <<>>, 0)

NoConversation == Conversation_new(0, <<>>, 0)

NoRequest == [conversation_id |-> None, message |-> <<>>]

NoCall == [made |-> FALSE, history |-> <<>>, user_message |-> <<>>,
           result |-> "none"]

NoResponse == [status |-> 0, error |-> NoError, conversation_id |-> 0,
               message |-> NoMessage]

\* Utc::now(): every reading of the clock is later than the one before
Now == {clock + 1}

(***************************************************************************)
(* The store (PostgreSQL through sqlx).                                    *)
(***************************************************************************)
\* ConversationRepository::find_by_id: the rows with this id
find_by_id(id) == {c \in conversations : c.id = id}

\* ConversationRepository::save: INSERT INTO conversations
save_conversation(c) == conversations \cup {c}

\* an UPDATE that sets both timestamps of the row
update_timestamp_both(id, now) ==
    {IF c.id = id THEN [c EXCEPT !.updated_at = now, !.created_at = now] ELSE c
        : c \in conversations}

\* ConversationRepository::update_timestamp: UPDATE ... WHERE id = $2
update_timestamp(id, now) ==
    {IF c.id = id THEN [c EXCEPT !.updated_at = now] ELSE c : c \in conversations}

\* the row MessageRepository::save inserts: the role goes in as text
message_row(m) == [m EXCEPT !.role = as_str(m.role)]

\* a save that inserts the row twice
save_message_twice(m) == Append(Append(messages, message_row(m)), message_row(m))

\* MessageRepository::save: INSERT INTO messages
save_message(m) == Append(messages, message_row(m))

\* the Message find_by_conversation_id builds from a row
row_message(r) == [r EXCEPT !.role = try_from(r.role)]

\* the rows of a conversation
conversation_rows(cid) ==
    {messages[i] : i \in {j \in DOMAIN messages : messages[j].conversation_id = cid}}

\* ORDER BY created_at ASC: every order of the rows that ascends in created_at
\* (rows with equal created_at come in any order)
RECURSIVE order_by_created_at(_)
order_by_created_at(rows) ==
    IF rows = {} THEN {<<>>}
    ELSE LET first == {r \in rows : \A q \in rows : r.created_at <= q.created_at}
         IN  UNION {{<<r>> \o rest : rest \in order_by_created_at(rows \ {r})}
                    : r \in first}

\* MessageRepository::find_by_conversation_id: the lists it can return
find_by_conversation_id(cid) ==
    {[i \in DOMAIN rows |-> row_message(rows[i])]
        : rows \in order_by_created_at(conversation_rows(cid))}

\* a row whose role text try_from rejects makes find_by_conversation_id fail
unreadable(cid) == \E r \in conversation_rows(cid) : try_from(r.role) = "Err"

(***************************************************************************)
(* The agent (OllamaAgentService).                                         *)
(***************************************************************************)
\* to_rig_history: user and assistant turns; system messages are left out
to_rig_history(msgs) ==
    LET kept == SelectSeq(msgs, LAMBDA m : m.role \in {"User", "Assistant"})
    IN  [i \in DOMAIN kept |->
            [role |-> IF kept[i].role = "User" THEN "user" ELSE "assistant",
             content |-> kept[i].content]]

\* what map_rig_error can return
InferenceErrors == {"OllamaUnavailable", "ModelNotFound", "InferenceError"}

\* the complete replies the model gives to a non-streaming call
Replies == {<<>>, Text("b", 2)}

(***************************************************************************)
(* WebSocket events (WsEvent) and send_event.                              *)
(***************************************************************************)
WsEvent(type, cid, content, mid, message) ==
    [type |-> type, conversation_id |-> cid, content |-> content,
     message_id |-> mid, message |-> message]

StreamStart(cid) == WsEvent("stream_start", cid, <<>>, 0, "")

StreamChunk(content) == WsEvent("stream_chunk", 0, content, 0, "")

StreamEnd(mid, content) == WsEvent("stream_end", 0, content, mid, "")

ErrorEvent(message) == WsEvent("error", 0, <<>>, 0, message)

\* the chunk events of a list of fragments, one per fragment, in order
chunk_events(frags) == [i \in DOMAIN frags |-> StreamChunk(frags[i])]

\* F1 F2 .. Fn as one text
RECURSIVE concatenation(_)
concatenation(frags) ==
    IF frags = <<>> THEN <<>>
    ELSE push_str(frags[1], concatenation(Tail(frags)))

\* send_event: the result of socket.send is dropped; a client that has gone
\* receives nothing
send_event(events, event) == IF connected THEN Append(events, event) ELSE events

(***************************************************************************)
(* Transport status of a failed POST /api/chat.                            *)
(***************************************************************************)
is_validation(e) == e.kind \in {"EmptyField", "FieldTooLong"}

is_not_found(e) == e.kind \in {"ConversationNotFound", "RecordNotFound"}

is_agent_unavailable(e) == e.kind = "OllamaUnavailable"

\* a choice of status that knows no 503
status_of_no_503(e) ==
    IF is_validation(e) THEN 400
    ELSE IF is_not_found(e) THEN 404
    ELSE 500

status_of(e) ==
    IF is_validation(e) THEN 400
    ELSE IF is_not_found(e) THEN 404
    ELSE IF is_agent_unavailable(e) THEN 503
    ELSE 500

error_response(e) ==
    [status |-> status_of(e), error |-> e, conversation_id |-> 0,
     message |-> NoMessage]

(***************************************************************************)
(* Initial states: the server has started; the store is empty or holds an  *)
(* earlier conversation; one client is about to use one of the transports. *)
(***************************************************************************)
EmptyStore == [conversations |-> {}, messages |-> <<>>, uuids |-> 0]

the_store == [conversations |-> conversations, messages |-> messages, uuids |-> uuids]

EarlierStore ==
    [conversations |-> {Conversation_new(1, Text("b", 2), 0)},
     messages |-> << message_row(Message_new(2, 1, "System", Text("b", 3), 0)),
                     message_row(Message_new(3, 1, "User", Text("b", 2), 0)) >>,
     uuids |-> 3]

\* an HTTP call in flight: GET /api/conversations, or the messages of one
\* conversation
FetchConversationsCall == [what |-> "conversations", id |-> 0]
FetchMessagesCall(id) == [what |-> "messages", id |-> id]

\* AppState::provide and App: every signal at its default, and
\* load_conversations called on mount
Mounted ==
    /\ app_conversations = {}
    /\ active_conversation = None
    /\ app_messages = <<>>
    /\ streaming_text = None
    /\ is_streaming = FALSE
    /\ error = None
    /\ sockets = <<>>
    /\ fetches = {FetchConversationsCall}

InitTasks(store, budget, streamScript) ==
    /\ conversations = store.conversations
    /\ messages = store.messages
    /\ uuids = store.uuids
    /\ clock = 0
    /\ left = budget
    /\ frame = "none"
    /\ turn = [p \in Procs |-> 0]
    /\ before = [p \in Procs |-> EmptyStore]
    /\ prepared = [p \in Procs |-> AppError("NotCalled")]
    /\ pc = [p \in Procs |->
                IF p = "ws"
                THEN (IF budget[p] > 0 THEN "AwaitingRequest" ELSE "NoConnection")
                ELSE "Idle"]
    /\ request = [p \in Procs |-> NoRequest]
    /\ conversation_id = [p \in Procs |-> 0]
    /\ user_message = [p \in Procs |-> NoMessage]
    /\ conv = [p \in Procs |-> NoConversation]
    /\ history = [p \in Procs |-> <<>>]
    /\ agent_call = [p \in Procs |-> NoCall]
    /\ assistant_message = [p \in Procs |-> NoMessage]
    /\ bind_now = [p \in Procs |-> 0]
    /\ response = [p \in Procs |-> NoResponse]
    /\ connected = (budget["ws"] > 0)
    /\ disconnected_in = "never"
    /\ turn_events = <<>>
    /\ full_content = <<>>
    /\ chan = <<>>
    /\ stream_pc = "none"
    /\ stream_result = "none"
    /\ pending = <<>>
    /\ items = 0
    /\ script = streamScript
    /\ generated = <<>>
    /\ pushed = <<>>
    /\ taken = <<>>
    /\ Mounted

Init ==
    \E store \in {EmptyStore, EarlierStore} :
    \E budget \in {[p \in Procs |-> IF p = "ws" THEN MaxTurns ELSE 0],
                   [p \in Procs |-> IF p = "rest" THEN MaxRequests ELSE 0]} :
        InitTasks(store, budget, "free")

(***************************************************************************)
(* How a task's turn ends.                                                 *)
(***************************************************************************)
\* a failure that ends the session
reply_error_closes(events, p, e, text) ==
    /\ pc' = [pc EXCEPT ![p] = IF p = "ws" THEN "Closed" ELSE "Idle"]
    /\ turn_events' = IF p = "ws" THEN send_event(events, ErrorEvent(text))
                      ELSE turn_events
    /\ response' = IF p = "ws" THEN response
                   ELSE [response EXCEPT ![p] = error_response(e)]

\* the turn fails: handle_socket sends an error event and goes on to the next
\* request; chat_handler answers with error_response
reply_error_after(events, p, e, text) ==
    /\ pc' = [pc EXCEPT ![p] = IF p = "ws" THEN "AwaitingRequest" ELSE "Idle"]
    /\ turn_events' = IF p = "ws" THEN send_event(events, ErrorEvent(text))
                      ELSE turn_events
    /\ response' = IF p = "ws" THEN response
                   ELSE [response EXCEPT ![p] = error_response(e)]

reply_error(p, e, text) == reply_error_after(turn_events, p, e, text)

\* the turn succeeds: handle_socket sends stream_end; chat_handler answers 200
reply_ok(p) ==
    /\ pc' = [pc EXCEPT ![p] = IF p = "ws" THEN "AwaitingRequest" ELSE "Idle"]
    /\ turn_events' =
          IF p = "ws"
          THEN send_event(turn_events,
                          StreamEnd(assistant_message[p].id, full_content))
          ELSE turn_events
    /\ response' =
          IF p = "ws" THEN response
          ELSE [response EXCEPT ![p] =
                  [status |-> 200, error |-> NoError,
                   conversation_id |-> conversation_id[p],
                   message |-> assistant_message[p]]]

\* a validation that tests the utterance for emptiness without trimming it
validate_untrimmed(message) ==
    IF message = <<>> THEN AppError("EmptyField")
    ELSE IF len(message) > MAX_MESSAGE_LENGTH
         THEN FieldTooLong(MAX_MESSAGE_LENGTH, len(message))
         ELSE NoError

(***************************************************************************)
(* ChatService::prepare_chat.                                              *)
(***************************************************************************)
\* a validation that also turns away a message of exactly the maximum length
validate_ge(message) ==
    IF trim(message) = <<>> THEN AppError("EmptyField")
    ELSE IF len(message) >= MAX_MESSAGE_LENGTH
         THEN FieldTooLong(MAX_MESSAGE_LENGTH, len(message))
         ELSE NoError

\* the two validations, the length first
validate_length_first(message) ==
    IF len(message) > MAX_MESSAGE_LENGTH
    THEN FieldTooLong(MAX_MESSAGE_LENGTH, len(message))
    ELSE IF trim(message) = <<>> THEN AppError("EmptyField")
         ELSE NoError

\* the two validations, in the order of the code
validate(message) ==
    IF trim(message) = <<>> THEN AppError("EmptyField")
    ELSE IF len(message) > MAX_MESSAGE_LENGTH
         THEN FieldTooLong(MAX_MESSAGE_LENGTH, len(message))
         ELSE NoError

\* a caller that goes on with the turn when prepare_chat returns Err(e)
prepare_err_ignored(events, p, e) ==
    /\ prepared' = [prepared EXCEPT ![p] = e]
    /\ pc' = [pc EXCEPT ![p] = IF p = "ws" THEN "Starting" ELSE "agent_chat"]
    /\ turn_events' = IF p = "ws" THEN events ELSE turn_events
    /\ UNCHANGED response

\* prepare_chat returns Err(e): the caller replies with the error
prepare_err(events, p, e) ==
    /\ prepared' = [prepared EXCEPT ![p] = e]
    /\ reply_error_after(events, p, e, e.kind)

\* prepare_chat up to its first await: validation, then the conversation id,
\* a fresh uuid when the request carries none
prepare_chat(p, req) ==
    /\ request' = [request EXCEPT ![p] = req]
    /\ turn' = [turn EXCEPT ![p] = turn[p] + 1]
    /\ before' = [before EXCEPT ![p] = the_store]
    /\ user_message' = [user_message EXCEPT ![p] = NoMessage]
    /\ conv' = [conv EXCEPT ![p] = NoConversation]
    /\ history' = [history EXCEPT ![p] = <<>>]
    /\ agent_call' = [agent_call EXCEPT ![p] = NoCall]
    /\ assistant_message' = [assistant_message EXCEPT ![p] = NoMessage]
    /\ bind_now' = [bind_now EXCEPT ![p] = 0]
    /\ IF validate(req.message) # NoError
       THEN /\ prepare_err(<<>>, p, validate(req.message))
            /\ UNCHANGED <<conversation_id, uuids>>
       ELSE /\ prepared' = [prepared EXCEPT ![p] = AppError("Pending")]
            /\ pc' = [pc EXCEPT ![p] = "find_by_id"]
            /\ turn_events' = IF p = "ws" THEN <<>> ELSE turn_events
            /\ UNCHANGED response
            /\ IF req.conversation_id = None
               THEN /\ uuids' = uuids + 1
                    /\ conversation_id' = [conversation_id EXCEPT ![p] = uuids + 1]
               ELSE /\ uuids' = uuids
                    /\ conversation_id' =
                          [conversation_id EXCEPT ![p] = req.conversation_id[1]]

\* the user Message, built before message_repo.save is awaited
new_user_message(p, now) ==
    /\ user_message' = [user_message EXCEPT ![p] =
          Message_new(uuids + 1, conversation_id[p], "User", request[p].message, now)]
    /\ uuids' = uuids + 1
    /\ clock' = now

\* a lookup that turns away an id the client supplied and the store lacks
PrepareFind_not_found(p) ==
    /\ pc[p] = "find_by_id"
    /\ \/ /\ prepare_err(turn_events, p, AppError("DatabaseQueryFailed"))
          /\ UNCHANGED <<clock, uuids, user_message, conv>>
       \/ /\ find_by_id(conversation_id[p]) # {}
          /\ \E now \in Now : new_user_message(p, now)
          /\ pc' = [pc EXCEPT ![p] = "save_user_message"]
          /\ UNCHANGED <<conv, prepared, turn_events, response>>
       \/ /\ find_by_id(conversation_id[p]) = {}
          /\ request[p].conversation_id # None
          /\ prepare_err(turn_events, p, AppError("ConversationNotFound"))
          /\ UNCHANGED <<clock, uuids, user_message, conv>>
       \/ /\ find_by_id(conversation_id[p]) = {}
          /\ request[p].conversation_id = None
          /\ \E now \in Now :
                /\ conv' = [conv EXCEPT ![p] =
                      Conversation_new(conversation_id[p],
                                       derive_title(request[p].message), now)]
                /\ clock' = now
          /\ pc' = [pc EXCEPT ![p] = "save_conversation"]
          /\ UNCHANGED <<uuids, user_message, prepared, turn_events, response>>
    /\ UNCHANGED <<conversations, messages, left, frame, turn, before, request,
                   conversation_id, history, agent_call, assistant_message, bind_now,
                   connected, disconnected_in, full_content, stream_vars>>
    /\ UNCHANGED client_vars

\* conversation_repo.find_by_id(&conversation_id).await?
PrepareFind(p) ==
    /\ pc[p] = "find_by_id"
    /\ \/ /\ prepare_err(turn_events, p, AppError("DatabaseQueryFailed"))
          /\ UNCHANGED <<clock, uuids, user_message, conv>>
       \/ /\ find_by_id(conversation_id[p]) # {}
          /\ \E now \in Now : new_user_message(p, now)
          /\ pc' = [pc EXCEPT ![p] = "save_user_message"]
          /\ UNCHANGED <<conv, prepared, turn_events, response>>
       \/ /\ find_by_id(conversation_id[p]) = {}
          /\ \E now \in Now :
                /\ conv' = [conv EXCEPT ![p] =
                      Conversation_new(conversation_id[p],
                                       derive_title(request[p].message), now)]
                /\ clock' = now
          /\ pc' = [pc EXCEPT ![p] = "save_conversation"]
          /\ UNCHANGED <<uuids, user_message, prepared, turn_events, response>>
    /\ UNCHANGED <<conversations, messages, left, frame, turn, before, request,
                   conversation_id, history, agent_call, assistant_message, bind_now,
                   connected, disconnected_in, full_content, stream_vars>>
    /\ UNCHANGED client_vars

\* a save of the conversation whose failure is not looked at
PrepareSaveConversation_unchecked(p) ==
    /\ pc[p] = "save_conversation"
    /\ \/ UNCHANGED conversations
       \/ /\ find_by_id(conv[p].id) = {}
          /\ conversations' = save_conversation(conv[p])
    /\ \E now \in Now : new_user_message(p, now)
    /\ pc' = [pc EXCEPT ![p] = "save_user_message"]
    /\ UNCHANGED <<prepared, turn_events, response>>
    /\ UNCHANGED <<messages, left, frame, turn, before, request, conversation_id,
                   conv, history, agent_call, assistant_message, bind_now,
                   connected, disconnected_in, full_content, stream_vars>>
    /\ UNCHANGED client_vars

\* conversation_repo.save(&conv).await?  (the id is the table's key)
PrepareSaveConversation(p) ==
    /\ pc[p] = "save_conversation"
    /\ \/ /\ prepare_err(turn_events, p, AppError("DatabaseQueryFailed"))
          /\ UNCHANGED <<conversations, clock, uuids, user_message>>
       \/ /\ find_by_id(conv[p].id) = {}
          /\ conversations' = save_conversation(conv[p])
          /\ \E now \in Now : new_user_message(p, now)
          /\ pc' = [pc EXCEPT ![p] = "save_user_message"]
          /\ UNCHANGED <<prepared, turn_events, response>>
    /\ UNCHANGED <<messages, left, frame, turn, before, request, conversation_id, conv,
                   history, agent_call, assistant_message, bind_now, connected,
                   disconnected_in, full_content, stream_vars>>
    /\ UNCHANGED client_vars

\* a save whose failure is not looked at
PrepareSaveUserMessage_unchecked(p) ==
    /\ pc[p] = "save_user_message"
    /\ \/ UNCHANGED messages
       \/ messages' = save_message(user_message[p])
    /\ pc' = [pc EXCEPT ![p] = "find_by_conversation_id"]
    /\ UNCHANGED <<conversations, clock, uuids, left, frame, turn, before, prepared,
                   request, conversation_id, user_message, conv, history,
                   agent_call, assistant_message, bind_now, response, socket_vars,
                   stream_vars>>
    /\ UNCHANGED client_vars

\* message_repo.save(&user_message).await?
PrepareSaveUserMessage(p) ==
    /\ pc[p] = "save_user_message"
    /\ \/ /\ prepare_err(turn_events, p, AppError("DatabaseQueryFailed"))
          /\ UNCHANGED messages
       \/ /\ messages' = save_message(user_message[p])
          /\ pc' = [pc EXCEPT ![p] = "find_by_conversation_id"]
          /\ UNCHANGED <<prepared, turn_events, response>>
    /\ UNCHANGED <<conversations, clock, uuids, left, frame, turn, before, request,
                   conversation_id, user_message, conv, history, agent_call,
                   assistant_message, bind_now, connected, disconnected_in, full_content,
                   stream_vars>>
    /\ UNCHANGED client_vars

\* a filter that keeps every message
exclude_nothing(all_messages, saved) == all_messages

\* the history of the ChatContext: the conversation's messages without the one
\* just saved
exclude_saved(all_messages, saved) ==
    SelectSeq(all_messages, LAMBDA m : m.id # saved.id)

\* message_repo.find_by_conversation_id(&conversation_id).await?, the filter,
\* and Ok(ChatContext)
PrepareHistory(p) ==
    /\ pc[p] = "find_by_conversation_id"
    /\ \/ /\ prepare_err(turn_events, p, AppError("DatabaseQueryFailed"))
          /\ UNCHANGED history
       \/ IF unreadable(conversation_id[p])
          THEN /\ prepare_err(turn_events, p, AppError("Unexpected"))
               /\ UNCHANGED history
          ELSE /\ \E all_messages \in find_by_conversation_id(conversation_id[p]) :
                     history' = [history EXCEPT ![p] =
                                    exclude_saved(all_messages, user_message[p])]
               /\ prepared' = [prepared EXCEPT ![p] = NoError]
               /\ pc' = [pc EXCEPT ![p] =
                            IF p = "ws" THEN "Starting" ELSE "agent_chat"]
               /\ UNCHANGED <<turn_events, response>>
    /\ UNCHANGED <<store_vars, left, frame, turn, before, request, conversation_id,
                   user_message, conv, agent_call, assistant_message, bind_now, connected,
                   disconnected_in, full_content, stream_vars>>
    /\ UNCHANGED client_vars

(***************************************************************************)
(* Persisting the assistant reply: the tail of ChatService::chat and       *)
(* ChatService::save_assistant_message.                                    *)
(***************************************************************************)
\* the assistant Message, built before message_repo.save is awaited
new_assistant_message(p, content, now) ==
    /\ assistant_message' = [assistant_message EXCEPT ![p] =
          Message_new(uuids + 1, conversation_id[p], "Assistant", content, now)]
    /\ uuids' = uuids + 1
    /\ clock' = now
    /\ UNCHANGED bind_now

\* a save of the reply whose failure is not looked at
SaveAssistant_unchecked(p) ==
    /\ pc[p] = "save_assistant"
    /\ \/ UNCHANGED messages
       \/ messages' = save_message(assistant_message[p])
    /\ \E now \in Now :
          /\ bind_now' = [bind_now EXCEPT ![p] = now]
          /\ clock' = now
    /\ pc' = [pc EXCEPT ![p] = "update_timestamp"]
    /\ UNCHANGED <<turn_events, response>>
    /\ UNCHANGED <<conversations, uuids, left, frame, turn, before, prepared,
                   request, conversation_id, user_message, conv, history,
                   agent_call, assistant_message, connected, disconnected_in,
                   full_content, stream_vars>>
    /\ UNCHANGED client_vars

\* message_repo.save(&assistant_message).await?, then the call of
\* update_timestamp up to its await: the query is built with .bind(Utc::now())
SaveAssistant(p) ==
    /\ pc[p] = "save_assistant"
    /\ \/ /\ reply_error(p, AppError("DatabaseQueryFailed"), "Failed to save response")
          /\ UNCHANGED <<messages, clock, bind_now>>
       \/ /\ messages' = save_message(assistant_message[p])
          /\ \E now \in Now :
                /\ bind_now' = [bind_now EXCEPT ![p] = now]
                /\ clock' = now
          /\ pc' = [pc EXCEPT ![p] = "update_timestamp"]
          /\ UNCHANGED <<turn_events, response>>
    /\ UNCHANGED <<conversations, uuids, left, frame, turn, before, prepared,
                   request, conversation_id, user_message, conv, history,
                   agent_call, assistant_message, connected, disconnected_in,
                   full_content, stream_vars>>
    /\ UNCHANGED client_vars

\* a bump whose failure fails the turn
UpdateTimestamp_strict(p) ==
    /\ pc[p] = "update_timestamp"
    /\ \/ /\ UNCHANGED conversations
          /\ reply_error(p, AppError("DatabaseQueryFailed"), "DatabaseQueryFailed")
       \/ /\ conversations' = update_timestamp(conversation_id[p], bind_now[p])
          /\ reply_ok(p)
    /\ UNCHANGED <<messages, clock, uuids, left, frame, turn, before, prepared,
                   request, conversation_id, user_message, conv, history,
                   agent_call, assistant_message, bind_now, connected,
                   disconnected_in, full_content, stream_vars>>
    /\ UNCHANGED client_vars

\* a bump that saves the reply once more
UpdateTimestamp_resave(p) ==
    /\ pc[p] = "update_timestamp"
    /\ \/ UNCHANGED conversations
       \/ conversations' = update_timestamp(conversation_id[p], bind_now[p])
    /\ messages' = save_message(assistant_message[p])
    /\ reply_ok(p)
    /\ UNCHANGED <<clock, uuids, left, frame, turn, before, prepared,
                   request, conversation_id, user_message, conv, history,
                   agent_call, assistant_message, bind_now, connected,
                   disconnected_in, full_content, stream_vars>>
    /\ UNCHANGED client_vars

\* the UPDATE of update_timestamp is executed with the time bound before; a
\* failure is logged, no more
UpdateTimestamp(p) ==
    /\ pc[p] = "update_timestamp"
    /\ \/ UNCHANGED conversations
       \/ conversations' = update_timestamp(conversation_id[p], bind_now[p])
    /\ reply_ok(p)
    /\ UNCHANGED <<messages, clock, uuids, left, frame, turn, before, prepared, request, conversation_id, user_message,
                   conv, history, agent_call, assistant_message, bind_now, connected,
                   disconnected_in, full_content, stream_vars>>
    /\ UNCHANGED client_vars

(***************************************************************************)
(* POST /api/chat: chat_handler and ChatService::chat.                     *)
(***************************************************************************)
\* the conversation ids a client can put in a request
ClientIds == {GhostId} \cup {c.id : c \in conversations}

\* chat_handler: an empty conversation_id field (0 here) is no id
form_conversation_id(field) == IF field = 0 THEN None ELSE Some(field)

RestRequest(p) ==
    /\ p = "rest"
    /\ pc[p] = "Idle"
    /\ left[p] > 0
    /\ left' = [left EXCEPT ![p] = left[p] - 1]
    /\ UNCHANGED frame
    /\ \E field \in {0} \cup ClientIds, message \in Utterances :
          prepare_chat(p, [conversation_id |-> form_conversation_id(field),
                           message |-> message])
    /\ UNCHANGED <<conversations, messages, clock, connected, disconnected_in,
                   full_content, stream_vars>>
    /\ UNCHANGED client_vars

\* the call of the model: what it is given (the history as to_rig_history
\* makes it, the utterance) and how it ends
rig_call(p, result) ==
    agent_call' = [agent_call EXCEPT ![p] =
          [made |-> TRUE, history |-> to_rig_history(history[p]),
           user_message |-> request[p].message, result |-> result]]

\* a chat that takes a failed inference for an empty reply
AgentChat_empty_on_error(p) ==
    /\ pc[p] = "agent_chat"
    /\ \E result \in InferenceErrors \cup {"Ok"} : rig_call(p, result)
    /\ \E content \in Replies, now \in Now :
          new_assistant_message(p, content, now)
    /\ pc' = [pc EXCEPT ![p] = "save_assistant"]
    /\ UNCHANGED <<turn_events, response>>
    /\ UNCHANGED <<conversations, messages, left, frame, turn, before, prepared,
                   request, conversation_id, user_message, conv, history,
                   connected, disconnected_in, full_content, stream_vars>>
    /\ UNCHANGED client_vars

\* OllamaAgentService::chat: the history goes through to_rig_history, the model
\* answers or fails
AgentChat(p) ==
    /\ pc[p] = "agent_chat"
    /\ \/ /\ \E kind \in InferenceErrors :
                /\ rig_call(p, kind)
                /\ reply_error(p, AppError(kind), kind)
          /\ UNCHANGED <<clock, uuids, assistant_message, bind_now>>
       \/ /\ rig_call(p, "Ok")
          /\ \E content \in Replies, now \in Now :
                new_assistant_message(p, content, now)
          /\ pc' = [pc EXCEPT ![p] = "save_assistant"]
          /\ UNCHANGED <<turn_events, response>>
    /\ UNCHANGED <<conversations, messages, left, frame, turn, before, prepared, request, conversation_id,
                   user_message, conv, history, connected, disconnected_in,
                   full_content, stream_vars>>
    /\ UNCHANGED client_vars

(***************************************************************************)
(* GET /ws/chat: handle_socket.                                            *)
(***************************************************************************)
\* rx lives from the channel's creation to the end of the loop body
rx_alive == pc["ws"] \in {"Streaming", "save_assistant", "update_timestamp"}

\* what a new iteration of the outer loop starts from
new_turn ==
    /\ full_content' = <<>>
    /\ chan' = <<>>
    /\ stream_pc' = "none"
    /\ stream_result' = "none"
    /\ pending' = <<>>
    /\ items' = 0
    /\ generated' = <<>>
    /\ pushed' = <<>>
    /\ taken' = <<>>

\* the client goes away: from now on socket.send fails and socket.recv ends
ClientDisconnect ==
    /\ connected
    /\ pc["ws"] \notin {"Closed", "NoConnection"}
    /\ connected' = FALSE
    /\ disconnected_in' =
          IF pc["ws"] = "Streaming" /\ stream_pc # "done" THEN "mid-stream"
          ELSE IF pc["ws"] = "AwaitingRequest" THEN "between turns"
          ELSE "in turn"
    /\ UNCHANGED <<store_vars, task_vars, turn_events, full_content, stream_vars>>
    /\ UNCHANGED client_vars

\* an end of the connection that is reported to the client as an error
WsClosed_with_error ==
    /\ pc["ws"] = "AwaitingRequest"
    /\ ~connected \/ left["ws"] = 0
    /\ pc' = [pc EXCEPT !["ws"] = "Closed"]
    /\ turn_events' = send_event(turn_events, ErrorEvent("Connection closed"))
    /\ UNCHANGED <<store_vars, left, frame, turn, before, prepared, request,
                   conversation_id, user_message, conv, history, agent_call,
                   assistant_message, bind_now, response, connected,
                   disconnected_in, full_content, stream_vars>>
    /\ UNCHANGED client_vars

\* socket.recv() returns None, an error or a Close frame: break
WsClosed ==
    /\ pc["ws"] = "AwaitingRequest"
    /\ ~connected \/ left["ws"] = 0
    /\ pc' = [pc EXCEPT !["ws"] = "Closed"]
    /\ UNCHANGED <<store_vars, left, frame, turn, before, prepared, request, conversation_id, user_message, conv,
                   history, agent_call, assistant_message, bind_now, response, socket_vars,
                   stream_vars>>
    /\ UNCHANGED client_vars

\* a frame that is no text frame: continue
WsOtherFrame ==
    /\ pc["ws"] = "AwaitingRequest"
    /\ connected
    /\ left["ws"] > 0
    /\ left' = [left EXCEPT !["ws"] = left["ws"] - 1]
    /\ frame' = "other"
    /\ UNCHANGED <<store_vars, pc, turn, before, prepared, request, conversation_id,
                   user_message, conv, history, agent_call, assistant_message, bind_now,
                   response, socket_vars, stream_vars>>
    /\ UNCHANGED client_vars

\* a parse failure that hands a default request to prepare_chat
WsInvalidRequest_defaulted ==
    /\ pc["ws"] = "AwaitingRequest"
    /\ connected
    /\ left["ws"] > 0
    /\ left' = [left EXCEPT !["ws"] = left["ws"] - 1]
    /\ frame' = "invalid"
    /\ new_turn
    /\ prepare_chat("ws", [conversation_id |-> None, message |-> Text("a", 1)])
    /\ UNCHANGED <<conversations, messages, clock, connected, disconnected_in, script>>
    /\ UNCHANGED client_vars

\* a text frame serde_json cannot parse as WsChatRequest: error event, continue
\* (the locals of the iteration before are gone when the loop comes round)
WsInvalidRequest ==
    /\ pc["ws"] = "AwaitingRequest"
    /\ connected
    /\ left["ws"] > 0
    /\ left' = [left EXCEPT !["ws"] = left["ws"] - 1]
    /\ frame' = "invalid"
    /\ before' = [before EXCEPT !["ws"] = the_store]
    /\ turn_events' = <<ErrorEvent("Invalid request")>>
    /\ request' = [request EXCEPT !["ws"] = NoRequest]
    /\ prepared' = [prepared EXCEPT !["ws"] = AppError("NotCalled")]
    /\ user_message' = [user_message EXCEPT !["ws"] = NoMessage]
    /\ conv' = [conv EXCEPT !["ws"] = NoConversation]
    /\ history' = [history EXCEPT !["ws"] = <<>>]
    /\ agent_call' = [agent_call EXCEPT !["ws"] = NoCall]
    /\ assistant_message' = [assistant_message EXCEPT !["ws"] = NoMessage]
    /\ bind_now' = [bind_now EXCEPT !["ws"] = 0]
    /\ new_turn
    /\ UNCHANGED <<store_vars, pc, turn, conversation_id, response,
                   connected, disconnected_in, script>>
    /\ UNCHANGED client_vars

\* a session that reads the next request while a turn is streaming
WsRequest_while_streaming ==
    /\ pc["ws"] \in {"AwaitingRequest", "Streaming"}
    /\ connected
    /\ left["ws"] > 0
    /\ left' = [left EXCEPT !["ws"] = left["ws"] - 1]
    /\ frame' = "request"
    /\ new_turn
    /\ \E id \in {None} \cup {Some(c) : c \in ClientIds}, message \in StreamUtterances :
          prepare_chat("ws", [conversation_id |-> id, message |-> message])
    /\ UNCHANGED <<conversations, messages, clock, connected, disconnected_in, script>>
    /\ UNCHANGED client_vars

\* a text frame that parses: the ChatRequest goes to prepare_chat
WsRequest ==
    /\ pc["ws"] = "AwaitingRequest"
    /\ connected
    /\ left["ws"] > 0
    /\ left' = [left EXCEPT !["ws"] = left["ws"] - 1]
    /\ frame' = "request"
    /\ new_turn
    /\ \E id \in {None} \cup {Some(c) : c \in ClientIds}, message \in StreamUtterances :
          prepare_chat("ws", [conversation_id |-> id, message |-> message])
    /\ UNCHANGED <<conversations, messages, clock, connected, disconnected_in, script>>
    /\ UNCHANGED client_vars

\* a start of the streaming that tells the client nothing
WsStart_silent ==
    /\ pc["ws"] = "Starting"
    /\ chan' = <<>>
    /\ stream_pc' = "spawned"
    /\ pc' = [pc EXCEPT !["ws"] = "Streaming"]
    /\ UNCHANGED <<store_vars, left, frame, turn, before, prepared, request,
                   conversation_id, user_message, conv, history, agent_call,
                   assistant_message, bind_now, response, connected,
                   disconnected_in, turn_events, full_content, stream_result,
                   pending, items, script, generated, pushed, taken>>
    /\ UNCHANGED client_vars

\* send stream_start, create the channel, spawn the generation task
WsStart ==
    /\ pc["ws"] = "Starting"
    /\ turn_events' = send_event(turn_events, StreamStart(conversation_id["ws"]))
    /\ chan' = <<>>
    /\ stream_pc' = "spawned"
    /\ pc' = [pc EXCEPT !["ws"] = "Streaming"]
    /\ UNCHANGED <<store_vars, left, frame, turn, before, prepared, request, conversation_id, user_message, conv,
                   history, agent_call, assistant_message, bind_now, response, connected,
                   disconnected_in, full_content, stream_result, pending, items,
                   script, generated, pushed, taken>>
    /\ UNCHANGED client_vars

\* a consumer that takes from the channel only once the generation has ended
WsDrain_after_done ==
    /\ pc["ws"] = "Streaming"
    /\ stream_pc = "done"
    /\ chan # <<>>
    /\ chan' = Tail(chan)
    /\ taken' = Append(taken, Head(chan))
    /\ full_content' = push_str(full_content, Head(chan))
    /\ turn_events' = send_event(turn_events, StreamChunk(Head(chan)))
    /\ UNCHANGED <<store_vars, task_vars, connected, disconnected_in, stream_pc,
                   stream_result, pending, items, script, generated, pushed>>
    /\ UNCHANGED client_vars

\* one round of the drain loop: rx.recv() returns a chunk, which is appended
\* to full_content and sent as stream_chunk
WsDrain ==
    /\ pc["ws"] = "Streaming"
    /\ chan # <<>>
    /\ chan' = Tail(chan)
    /\ taken' = Append(taken, Head(chan))
    /\ full_content' = push_str(full_content, Head(chan))
    /\ turn_events' = send_event(turn_events, StreamChunk(Head(chan)))
    /\ UNCHANGED <<store_vars, task_vars, connected, disconnected_in, stream_pc,
                   stream_result, pending, items, script, generated, pushed>>
    /\ UNCHANGED client_vars

\* a join that takes a failed generation for a finished one
joined_ok_or_err(result) == result \in {"Ok", "Err"}

\* match stream_handle.await { Ok(Ok(())) => .. }
joined_ok(result) == result = "Ok"

\* rx.recv() returns None (the channel is empty and tx is dropped), then
\* stream_handle.await
WsJoin ==
    /\ pc["ws"] = "Streaming"
    /\ chan = <<>>
    /\ stream_pc = "done"
    /\ IF joined_ok(stream_result)
       THEN /\ \E now \in Now : new_assistant_message("ws", full_content, now)
            /\ pc' = [pc EXCEPT !["ws"] = "save_assistant"]
            /\ UNCHANGED <<turn_events, response>>
       ELSE /\ reply_error("ws", AppError("InferenceError"),
                           IF stream_result = "Err" THEN "InferenceError"
                           ELSE "Internal error during streaming")
            /\ UNCHANGED <<clock, uuids, assistant_message, bind_now>>
    /\ UNCHANGED <<conversations, messages, left, frame, turn, before, prepared, request, conversation_id,
                   user_message, conv, history, agent_call, connected,
                   disconnected_in, full_content, stream_vars>>
    /\ UNCHANGED client_vars

(***************************************************************************)
(* The generation task: OllamaAgentService::stream_chat.                   *)
(***************************************************************************)
\* the task starts: to_rig_history, then agent.stream_chat(..).await
StreamBegin ==
    /\ stream_pc = "spawned"
    /\ rig_call("ws", "stream")
    /\ stream_pc' = "next"
    /\ UNCHANGED <<store_vars, pc, left, frame, turn, before, prepared, request, conversation_id, user_message,
                   conv, history, assistant_message, bind_now, response, socket_vars, chan,
                   stream_result, pending, items, script, generated, pushed, taken>>
    /\ UNCHANGED client_vars

\* the items stream.next() can yield now: a text fragment, another item
\* (tool call, final response), an error, the end of the stream; the model's
\* client can also panic.  A long generation yields CHANNEL_CAPACITY +
\* ExtraFragments text fragments, each longer than the one before, and ends.
next_items ==
    IF script = "long"
    THEN IF items < CHANNEL_CAPACITY + ExtraFragments
         THEN {<<"Text", Text("a", items + 1)>>}
         ELSE {<<"None", <<>>>>}
    ELSE {<<"None", <<>>>>, <<"Err", <<>>>>, <<"Panic", <<>>>>}
         \cup (IF items < MaxItems
               THEN {<<"Other", <<>>>>} \cup {<<"Text", f>> : f \in Fragments}
               ELSE {})

\* while let Some(item) = stream.next().await { match item .. }
StreamNext ==
    /\ stream_pc = "next"
    /\ \E item \in next_items :
          /\ items' = IF item[1] \in {"Text", "Other"} THEN items + 1 ELSE items
          /\ generated' = IF item[1] = "Text" THEN Append(generated, item[2])
                          ELSE generated
          /\ pending' = IF item[1] = "Text" THEN item[2] ELSE pending
          /\ stream_pc' = CASE item[1] = "Text" -> "send"
                            [] item[1] = "Other" -> "next"
                            [] OTHER -> "done"
          /\ stream_result' = CASE item[1] = "None" -> "Ok"
                                [] item[1] = "Err" -> "Err"
                                [] item[1] = "Panic" -> "Panic"
                                [] OTHER -> stream_result
    /\ UNCHANGED <<store_vars, task_vars, socket_vars, chan, script, pushed, taken>>
    /\ UNCHANGED client_vars

\* an unbounded channel: a send always completes
always_capacity(c) == TRUE

\* mpsc::channel::<String>(64): a send completes when there is a free slot
has_capacity(c) == Len(c) < CHANNEL_CAPACITY

\* a channel that hands out the newest fragment first
channel_push_front(c, text) == <<text>> \o c

\* the channel after tx.send(text) completes
channel_push(c, text) == Append(c, text)

\* tx.send(text.text).await: an error when the receiver is gone (return Ok(())),
\* else the push, which waits while the channel is full
StreamSend ==
    /\ stream_pc = "send"
    /\ IF ~rx_alive
       THEN /\ stream_pc' = "done"
            /\ stream_result' = "Ok"
            /\ UNCHANGED <<chan, pushed>>
       ELSE /\ has_capacity(chan)
            /\ chan' = channel_push(chan, pending)
            /\ pushed' = Append(pushed, pending)
            /\ stream_pc' = "next"
            /\ UNCHANGED stream_result
    /\ UNCHANGED <<store_vars, task_vars, socket_vars, pending, items, script,
                   generated, taken>>
    /\ UNCHANGED client_vars

(***************************************************************************)
(* Specifications.                                                         *)
(***************************************************************************)
Prepare(p) ==
    \/ PrepareFind(p)
    \/ PrepareSaveConversation(p)
    \/ PrepareSaveUserMessage(p)
    \/ PrepareHistory(p)

Next ==
    \/ \E p \in Procs : RestRequest(p)
    \/ \E p \in Procs : Prepare(p)
    \/ \E p \in Procs : AgentChat(p)
    \/ \E p \in Procs : SaveAssistant(p)
    \/ \E p \in Procs : UpdateTimestamp(p)
    \/ ClientDisconnect
    \/ WsClosed
    \/ WsOtherFrame
    \/ WsInvalidRequest
    \/ WsRequest
    \/ WsStart
    \/ WsDrain
    \/ WsJoin
    \/ StreamBegin
    \/ StreamNext
    \/ StreamSend

Spec == Init /\ [][Next]_vars

(***************************************************************************)
(* One streamed turn whose generation is longer than the channel.          *)
(***************************************************************************)
InitLong ==
    InitTasks(EmptyStore, [p \in Procs |-> IF p = "ws" THEN 1 ELSE 0], "long")

NextStream ==
    \/ \E p \in Procs : Prepare(p)
    \/ \E p \in Procs : SaveAssistant(p)
    \/ \E p \in Procs : UpdateTimestamp(p)
    \/ ClientDisconnect
    \/ WsClosed
    \/ WsOtherFrame
    \/ WsInvalidRequest
    \/ WsRequest
    \/ WsStart
    \/ WsDrain
    \/ WsJoin
    \/ StreamBegin
    \/ StreamNext
    \/ StreamSend

SpecLong == InitLong /\ [][NextStream]_vars

\* The long turn under a fair scheduler: tokio runs every task that can run,
\* the store answers every call, the response stream yields its next item or
\* ends.  Nothing is asked of the client: it may never send a request, and it
\* may leave at any time or stay.
SessionFairness ==
    /\ WF_vars(Prepare("ws"))
    /\ WF_vars(WsStart)
    /\ WF_vars(WsDrain)
    /\ WF_vars(WsJoin)
    /\ WF_vars(SaveAssistant("ws"))
    /\ WF_vars(UpdateTimestamp("ws"))

GenerationFairness ==
    /\ WF_vars(StreamBegin)
    /\ WF_vars(StreamNext)
    /\ WF_vars(StreamSend)

SpecLongFair == SpecLong /\ SessionFairness /\ GenerationFairness

(***************************************************************************)
(* One WebSocket session of several requests, one after the other.         *)
(***************************************************************************)
InitSession ==
    InitTasks(EmptyStore, [p \in Procs |-> IF p = "ws" THEN SessionTurns ELSE 0],
              "free")

SpecSession == InitSession /\ [][NextStream]_vars

(***************************************************************************)
(* Two clients at once on one conversation: a WebSocket turn and a POST    *)
(* /api/chat, both on the conversation the store holds.  The tasks run on  *)
(* tokio's multi-threaded runtime and share the store: their steps         *)
(* interleave at every await.  Each client sends the same short utterance, *)
(* and the response stream of the WebSocket turn ends without a fragment.  *)
(***************************************************************************)
SharedStore ==
    [conversations |-> {Conversation_new(1, Text("b", 2), 0)},
     messages |-> << message_row(Message_new(2, 1, "User", Text("b", 2), 0)) >>,
     uuids |-> 2]

SharedRequest == [conversation_id |-> Some(1), message |-> Text("a", 5)]

InitShared ==
    InitTasks(SharedStore,
              [p \in Procs |-> IF p = "ws" THEN MaxTurns ELSE MaxRequests],
              "free")

SharedRestRequest == RestRequest("rest") /\ request'["rest"] = SharedRequest

SharedWsRequest == WsRequest /\ request'["ws"] = SharedRequest

SharedStreamNext == StreamNext /\ stream_result' = "Ok"

NextShared ==
    \/ SharedRestRequest
    \/ SharedWsRequest
    \/ \E p \in Procs : PrepareFind(p)
    \/ \E p \in Procs : PrepareSaveUserMessage(p)
    \/ \E p \in Procs : PrepareHistory(p)
    \/ \E p \in Procs : AgentChat(p)
    \/ \E p \in Procs : SaveAssistant(p)
    \/ \E p \in Procs : UpdateTimestamp(p)
    \/ WsClosed
    \/ WsStart
    \/ WsJoin
    \/ StreamBegin
    \/ SharedStreamNext

SpecShared == InitShared /\ [][NextShared]_vars

(***************************************************************************)
(* Two clients that name the same conversation before it exists: each      *)
(* sends a request with the same new conversation id, one over the         *)
(* WebSocket and one to /api/chat.  The store is healthy: a statement      *)
(* fails only when the row it inserts is already there.                    *)
(***************************************************************************)
RaceRequest == [conversation_id |-> Some(GhostId), message |-> Text("a", 5)]

InitRace ==
    InitTasks(EmptyStore,
              [p \in Procs |-> IF p = "ws" THEN MaxTurns ELSE MaxRequests],
              "free")

RaceRestRequest == RestRequest("rest") /\ request'["rest"] = RaceRequest

RaceWsRequest == WsRequest /\ request'["ws"] = RaceRequest

RaceFind(p) == PrepareFind(p) /\ prepared'[p] = prepared[p]

RaceSaveConversation(p) ==
    /\ PrepareSaveConversation(p)
    /\ find_by_id(conv[p].id) = {} => prepared'[p] = prepared[p]

RaceSaveUserMessage(p) == PrepareSaveUserMessage(p) /\ prepared'[p] = prepared[p]

RaceHistory(p) == PrepareHistory(p) /\ prepared'[p] = NoError

NextRace ==
    \/ RaceRestRequest
    \/ RaceWsRequest
    \/ \E p \in Procs : RaceFind(p)
    \/ \E p \in Procs : RaceSaveConversation(p)
    \/ \E p \in Procs : RaceSaveUserMessage(p)
    \/ \E p \in Procs : RaceHistory(p)
    \/ \E p \in Procs : AgentChat(p)
    \/ \E p \in Procs : SaveAssistant(p)
    \/ \E p \in Procs : UpdateTimestamp(p)
    \/ WsClosed
    \/ WsStart
    \/ WsJoin
    \/ StreamBegin
    \/ SharedStreamNext

SpecRace == InitRace /\ [][NextRace]_vars

(***************************************************************************)
(* The browser client (src/frontend): AppState, start_streaming, ChatInput *)
(* and Sidebar.  It runs single-threaded in the browser: every event       *)
(* handler and every continuation of a spawned future runs to its end      *)
(* before the next one starts.  The server is what the client sees of it:  *)
(* the events handle_socket sends for one request, and the bodies of the   *)
(* two GET routes.                                                         *)
(***************************************************************************)
\* a conversation the backend lists when the page loads
ExistingId == 1
\* the id the server generates for a request that names no conversation
FreshId == 2
\* String::default(), what unwrap_or_default makes of None
EmptyId == 0

unwrap_or_default(option) == IF option = None THEN EmptyId ELSE option[1]

\* models::Message of the frontend, without its id and created_at
ClientMessage(cid, role, content) ==
    [conversation_id |-> cid, role |-> role, content |-> content]

\* what the user has typed when Enter is pressed
Inputs == {Text("a", 1), Text(" ", 1)}

\* the text fragments of one stream, in order: the model's reply, cut after
\* any number of fragments
FragmentLists ==
    {[i \in 1..n |-> IF i % 2 = 1 THEN Text("a", 1) ELSE Text("b", 1)] :
        n \in 0..MaxChunks}

\* the events handle_socket sends for one request: an error event when
\* prepare_chat fails; otherwise stream_start, a stream_chunk per fragment, and
\* stream_end with the accumulated text or an error event
ServerReplies(requested) ==
    LET cid == IF requested = None THEN FreshId ELSE requested[1]
    IN  {<<ErrorEvent("prepare")>>}
        \cup UNION {{<<StreamStart(cid)>> \o chunk_events(frags)
                        \o <<StreamEnd(0, concatenation(frags))>>,
                     <<StreamStart(cid)>> \o chunk_events(frags)
                        \o <<ErrorEvent("stream")>>} : frags \in FragmentLists}

\* the body of GET /api/conversations: the conversation there was when the
\* page loaded, and those the server has announced with stream_start (they are
\* saved before the event is sent)
Listing ==
    {ExistingId}
    \cup {sockets[s].received[1].conversation_id :
             s \in {t \in DOMAIN sockets :
                       /\ sockets[t].received # <<>>
                       /\ sockets[t].received[1].type = "stream_start"}}

\* the bodies GET /api/conversations/{id}/messages may have
BackendMessages(id) ==
    {<<ClientMessage(id, "user", Text("b", 1)),
       ClientMessage(id, "assistant", Text("b", 2))>>}

\* the WebSocket start_streaming returns, with what its onopen closure holds
NewSocket(text, conv_id) ==
    [state |-> "connecting", conversation_id |-> conv_id, message |-> text,
     inflight |-> <<>>, received |-> <<>>]

\* send_message's on_start
on_start(new_conv_id) ==
    /\ active_conversation' = Some(new_conv_id)
    /\ app_messages' =
          [i \in DOMAIN app_messages |->
              IF app_messages[i].conversation_id = EmptyId
              THEN [app_messages[i] EXCEPT !.conversation_id = new_conv_id]
              ELSE app_messages[i]]
    /\ UNCHANGED <<streaming_text, is_streaming, error, fetches>>

\* send_message's on_chunk
on_chunk(chunk) ==
    /\ streaming_text' = IF streaming_text # None
                         THEN Some(push_str(streaming_text[1], chunk))
                         ELSE None
    /\ UNCHANGED <<active_conversation, app_messages, is_streaming, error, fetches>>

\* send_message's on_end; it ends with load_conversations
on_end(content) ==
    /\ app_messages' =
          Append(app_messages,
                 ClientMessage(unwrap_or_default(active_conversation),
                               "assistant", content))
    /\ streaming_text' = None
    /\ is_streaming' = FALSE
    /\ fetches' = fetches \cup {FetchConversationsCall}
    /\ UNCHANGED <<active_conversation, error>>

\* send_message's on_error
on_error(err) ==
    /\ error' = Some(err)
    /\ streaming_text' = None
    /\ is_streaming' = FALSE
    /\ UNCHANGED <<active_conversation, app_messages, fetches>>

\* ChatInput's send, AppState::send_message and start_streaming up to its
\* return: nothing happens on blank input or while a stream is on; WebSocket::new
\* gives a socket or fails, and then on_error runs before send_message returns
\* (the call is kept with state "failed": there is no socket)
SendMessage(input) ==
    /\ Len(sockets) < MaxStreams
    /\ trim(input) # <<>>
    /\ ~is_streaming
    /\ app_messages' =
          Append(app_messages,
                 ClientMessage(unwrap_or_default(active_conversation), "user",
                               trim(input)))
    /\ \/ /\ sockets' = Append(sockets, NewSocket(trim(input), active_conversation))
          /\ is_streaming' = TRUE
          /\ streaming_text' = Some(<<>>)
          /\ error' = None
       \/ /\ sockets' = Append(sockets,
                               [NewSocket(trim(input), active_conversation)
                                   EXCEPT !.state = "failed"])
          /\ error' = Some("Failed to connect")
          /\ streaming_text' = None
          /\ is_streaming' = FALSE
    /\ UNCHANGED <<app_conversations, active_conversation, fetches, server_vars>>

\* onopen: the request is sent, and the server's events for it are on their way
OnOpen(s) ==
    /\ s \in DOMAIN sockets
    /\ sockets[s].state = "connecting"
    /\ \E events \in ServerReplies(sockets[s].conversation_id) :
          sockets' = [sockets EXCEPT ![s].state = "open", ![s].inflight = events]
    /\ UNCHANGED <<app_conversations, active_conversation, app_messages,
                   streaming_text, is_streaming, error, fetches, server_vars>>

\* onmessage: the next text frame is parsed and handed to its callback
OnMessage(s) ==
    /\ s \in DOMAIN sockets
    /\ sockets[s].state = "open"
    /\ sockets[s].inflight # <<>>
    /\ LET ev == Head(sockets[s].inflight)
       IN  /\ sockets' = [sockets EXCEPT ![s].inflight = Tail(@),
                                         ![s].received = Append(@, ev)]
           /\ CASE ev.type = "stream_start" -> on_start(ev.conversation_id)
                [] ev.type = "stream_chunk" -> on_chunk(ev.content)
                [] ev.type = "stream_end" -> on_end(ev.content)
                [] ev.type = "error" -> on_error(ev.message)
                [] OTHER -> on_error("Parse error")
    /\ UNCHANGED <<app_conversations, server_vars>>

\* the connection is refused, fails or is closed before the server's last
\* event has come: onerror writes a log line, and no onclose handler is set;
\* the frames not yet delivered are lost
SocketLost(s) ==
    /\ s \in DOMAIN sockets
    /\ \/ sockets[s].state = "connecting"
       \/ sockets[s].state = "open" /\ sockets[s].inflight # <<>>
    /\ sockets' = [sockets EXCEPT ![s].state = "closed", ![s].inflight = <<>>]
    /\ UNCHANGED <<app_conversations, active_conversation, app_messages,
                   streaming_text, is_streaming, error, fetches, server_vars>>

\* AppState::select_conversation up to spawn_local: a click on a listed
\* conversation
SelectConversation(id) ==
    /\ id \in app_conversations
    /\ active_conversation' = Some(id)
    /\ streaming_text' = None
    /\ error' = None
    /\ fetches' = fetches \cup {FetchMessagesCall(id)}
    /\ UNCHANGED <<app_conversations, app_messages, is_streaming, sockets,
                   server_vars>>

\* Sidebar's on_new: a click on "+ New Chat"
NewChat ==
    /\ active_conversation' = None
    /\ app_messages' = <<>>
    /\ streaming_text' = None
    /\ UNCHANGED <<app_conversations, is_streaming, error, sockets, fetches,
                   server_vars>>

\* the future load_conversations spawned: fetch_conversations has returned
FetchConversations ==
    /\ FetchConversationsCall \in fetches
    /\ fetches' = fetches \ {FetchConversationsCall}
    /\ \/ /\ app_conversations' = Listing
          /\ UNCHANGED error
       \/ /\ error' = Some("Network error")
          /\ UNCHANGED app_conversations
    /\ UNCHANGED <<active_conversation, app_messages, streaming_text,
                   is_streaming, sockets, server_vars>>

\* the future select_conversation spawned: fetch_messages has returned
FetchMessages(id) ==
    /\ FetchMessagesCall(id) \in fetches
    /\ fetches' = fetches \ {FetchMessagesCall(id)}
    /\ \/ /\ \E msgs \in BackendMessages(id) : app_messages' = msgs
          /\ UNCHANGED error
       \/ /\ error' = Some("Network error")
          /\ UNCHANGED app_messages
    /\ UNCHANGED <<app_conversations, active_conversation, streaming_text,
                   is_streaming, sockets, server_vars>>

InitClient == InitTasks(EmptyStore, [p \in Procs |-> 0], "free")

NextClient ==
    \/ \E input \in Inputs : SendMessage(input)
    \/ \E s \in 1..MaxStreams : OnOpen(s)
    \/ \E s \in 1..MaxStreams : OnMessage(s)
    \/ \E s \in 1..MaxStreams : SocketLost(s)
    \/ \E id \in {ExistingId, FreshId} : SelectConversation(id)
    \/ NewChat
    \/ FetchConversations
    \/ \E id \in {ExistingId, FreshId} : FetchMessages(id)

\* the browser's event loop runs every handler whose event has come; when a
\* connection fails, and what the user clicks, is up to the world
ClientFairness ==
    /\ \A s \in 1..MaxStreams : WF_vars(OnOpen(s)) /\ WF_vars(OnMessage(s))
    /\ WF_vars(FetchConversations)
    /\ \A id \in {ExistingId, FreshId} : WF_vars(FetchMessages(id))

SpecClient == InitClient /\ [][NextClient]_vars /\ ClientFairness

(***************************************************************************)
(* Properties of the streaming session.                                    *)
(***************************************************************************)
\* the rows of table messages
stored_messages == {messages[i] : i \in DOMAIN messages}

\* the streamed turn is over: the generation task was joined and the session
\* has sent its terminal event
streamed_turn_over ==
    /\ pc["ws"] \in {"AwaitingRequest", "Closed"}
    /\ stream_pc = "done"

\* the client was there for the whole turn
client_stayed == disconnected_in \in {"never", "between turns"}

\* the assistant reply of the turn is in the store
reply_stored(p) == message_row(assistant_message[p]) \in stored_messages

\* C1: when a streamed turn's generation yields the fragments F1..Fn and ends
\* without error, the reply is saved and the client stays for the whole turn,
\* the client has received stream_start, then exactly the chunk events of
\* F1..Fn in that order, then one stream_end whose full_content is F1 F2 .. Fn
\* and whose message_id is the id of a stored ASSISTANT message of the turn's
\* conversation with that content.
C1_StreamedSuccess ==
    (streamed_turn_over /\ stream_result = "Ok" /\ client_stayed
        /\ reply_stored("ws"))
    => /\ turn_events =
            <<StreamStart(conversation_id["ws"])>>
            \o chunk_events(generated)
            \o <<StreamEnd(assistant_message["ws"].id, concatenation(generated))>>
       /\ \E m \in stored_messages :
            /\ m.id = turn_events[Len(turn_events)].message_id
            /\ m.role = "ASSISTANT"
            /\ m.conversation_id = conversation_id["ws"]
            /\ m.content = concatenation(generated)

\* C1 witness: a successful turn of two different fragments
C1_Witness ==
    /\ streamed_turn_over /\ stream_result = "Ok" /\ client_stayed
    /\ reply_stored("ws")
    /\ Len(generated) = 2
    /\ generated[1] # generated[2]

\* C2: once the client has disconnected while fragments were still arriving,
\* nothing is written to the store and no event reaches the client.
C2_NothingAfterDisconnect ==
    [][disconnected_in = "mid-stream"
        => UNCHANGED <<conversations, messages, turn_events>>]_vars

\* C3: when the generation fails after yielding F1..Fk, no assistant message
\* is stored for the turn (the user message stays the newest row), and a client
\* that stayed has received stream_start, the chunk events of F1..Fk in order
\* and then one error event, with no stream_end.
C3_StreamedFailure ==
    (streamed_turn_over /\ stream_result = "Err")
    => /\ assistant_message["ws"] = NoMessage
       /\ messages = Append(before["ws"].messages, message_row(user_message["ws"]))
       /\ client_stayed =>
            turn_events =
                <<StreamStart(conversation_id["ws"])>>
                \o chunk_events(generated)
                \o <<ErrorEvent("InferenceError")>>

\* C3 witness: a generation that failed after one fragment, the client there
C3_Witness ==
    /\ streamed_turn_over /\ stream_result = "Err" /\ client_stayed
    /\ Len(generated) = 1

\* C4: once the connection is closed the generation task pushes no further
\* fragment into the channel.
C4_NoPushAfterDisconnect ==
    [][~connected => pushed' = pushed]_vars

\* C5: the channel never holds more than CHANNEL_CAPACITY fragments; a send
\* on a full channel does not complete while the channel stays full; and the
\* fragments pushed are exactly those taken followed by those in the channel,
\* in the order they were pushed.
C5_BoundedChannel ==
    /\ Len(chan) <= CHANNEL_CAPACITY
    /\ pushed = taken \o chan
    /\ (stream_pc = "send" /\ rx_alive /\ Len(chan) = CHANNEL_CAPACITY)
          => ~ENABLED StreamSend

\* C5 witness: the generation task waits on a full channel after the consumer
\* has taken fragments
C5_Witness ==
    /\ stream_pc = "send"
    /\ Len(chan) = CHANNEL_CAPACITY
    /\ Len(taken) > 0

(***************************************************************************)
(* Properties of prepare_chat.                                             *)
(***************************************************************************)
\* prepare_chat has been called for the task's current request
prepare_called(p) == prepared[p].kind # "NotCalled"

\* prepare_chat has just returned Ok(ChatContext)
prepare_returned(p) ==
    /\ prepared[p] = NoError
    /\ pc[p] = IF p = "ws" THEN "Starting" ELSE "agent_chat"

\* the call has left tables conversations and messages as they were
nothing_persisted(p) ==
    /\ conversations = before[p].conversations
    /\ messages = before[p].messages

\* C6: when prepare_chat returns a ChatContext the utterance was not empty
\* after trimming and not over the maximum, the call has added exactly one row
\* to table messages, of role USER and of the returned conversation id, and,
\* when the request carried no conversation id, exactly one row to table
\* conversations, whose id is the returned conversation id.
C6_PrepareSavesOneUserMessage ==
    \A p \in Procs :
        prepare_returned(p) =>
            /\ trim(request[p].message) # <<>>
            /\ len(request[p].message) <= MAX_MESSAGE_LENGTH
            /\ \E row \in stored_messages :
                  /\ messages = Append(before[p].messages, row)
                  /\ row.role = "USER"
                  /\ row.conversation_id = conversation_id[p]
                  /\ row.id = user_message[p].id
            /\ request[p].conversation_id = None =>
                  \E c \in conversations :
                      /\ c.id = conversation_id[p]
                      /\ \A b \in before[p].conversations : b.id # c.id
                      /\ conversations = before[p].conversations \cup {c}

\* C6 witness: prepare_chat has returned for a request without conversation id
C6_Witness ==
    \E p \in Procs :
        /\ prepare_returned(p)
        /\ request[p].conversation_id = None
        /\ before[p].messages # <<>>

\* C7: for an utterance that is empty after trimming prepare_chat returns
\* EmptyField and tables conversations and messages are as they were.
C7_EmptyUtteranceRejected ==
    \A p \in Procs :
        (prepare_called(p) /\ trim(request[p].message) = <<>>)
        => /\ prepared[p] = AppError("EmptyField")
           /\ nothing_persisted(p)

\* C7 witness: a whitespace-only utterance has been turned away
C7_Witness ==
    \E p \in Procs :
        /\ prepare_called(p)
        /\ request[p].message = Text(" ", 3)
        /\ prepared[p].kind = "EmptyField"

rig_message(row) ==
    [role |-> IF row.role = "USER" THEN "user" ELSE "assistant",
     content |-> row.content]

\* the rows the conversation held before the turn, system messages left out
prior_rows(p) ==
    {r \in {before[p].messages[i] : i \in DOMAIN before[p].messages} :
        r.conversation_id = conversation_id[p] /\ r.role # "SYSTEM"}

\* C9: the history handed to the model is made of exactly the conversation's
\* rows from before the turn that are no system messages, in an order the
\* store can return them in: the message the turn's prepare_chat saved is not
\* in it (no message of the ChatContext's history has its id) and no system
\* message is.
C9_HistoryExcludesSavedAndSystem ==
    \A p \in Procs :
        agent_call[p].made =>
            /\ \A i \in DOMAIN history[p] : history[p][i].id # user_message[p].id
            /\ \E rows \in order_by_created_at(prior_rows(p)) :
                  agent_call[p].history = [i \in DOMAIN rows |-> rig_message(rows[i])]

\* C9 witness: the model is called for a turn on the earlier conversation,
\* which holds a system message and a user message
C9_Witness ==
    \E p \in Procs :
        /\ agent_call[p].made
        /\ conversation_id[p] = 1
        /\ Len(agent_call[p].history) = 1

\* the turn's reply is an error
error_replied(p) ==
    IF p = "ws"
    THEN /\ pc[p] \in {"AwaitingRequest", "Closed"}
         /\ connected => turn_events = <<ErrorEvent(prepared[p].kind)>>
    ELSE /\ pc[p] = "Idle"
         /\ response[p] = error_response(prepared[p])

\* C10: when the model has been called for a turn (by chat or by the
\* generation task) the turn's user message and its conversation are in the
\* store; and when prepare_chat returned an error the turn has ended with an
\* error reply and the model has not been called.
C10_UserMessageBeforeInference ==
    \A p \in Procs :
        /\ agent_call[p].made =>
              /\ message_row(user_message[p]) \in stored_messages
              /\ find_by_id(conversation_id[p]) # {}
        /\ prepared[p].kind \notin {"NotCalled", "Pending", "Ok"} =>
              /\ ~agent_call[p].made
              /\ error_replied(p)

\* C10 witness: saving the user message has failed
C10_Witness ==
    \E p \in Procs :
        /\ prepared[p].kind = "DatabaseQueryFailed"
        /\ user_message[p] # NoMessage
        /\ message_row(user_message[p]) \notin stored_messages
        /\ find_by_id(conversation_id[p]) # {}

(***************************************************************************)
(* Properties of ChatService::chat and of the recency bump.                *)
(***************************************************************************)
\* the rows of role ASSISTANT
assistant_rows(rows) == SelectSeq(rows, LAMBDA r : r.role = "ASSISTANT")

\* C11: when the model's answer to the non-streaming call of a turn is an
\* error, chat returns that inference error (OllamaUnavailable, ModelNotFound
\* or InferenceError), and table messages is what it was before the turn plus
\* the turn's user message: no assistant message has been added and the user
\* message is still there.
C11_SyncInferenceFailure ==
    (agent_call["rest"].result \in InferenceErrors)
    => /\ pc["rest"] = "Idle"
       /\ response["rest"] = error_response(AppError(agent_call["rest"].result))
       /\ messages = Append(before["rest"].messages,
                            message_row(user_message["rest"]))
       /\ user_message["rest"].role = "User"
       /\ assistant_rows(messages) = assistant_rows(before["rest"].messages)

\* C11 witness: the model was unreachable for a turn on the earlier conversation
C11_Witness ==
    /\ agent_call["rest"].result = "OllamaUnavailable"
    /\ conversation_id["rest"] = 1
    /\ Len(messages) = 3

\* the task's turn is over
turn_over(p) ==
    IF p = "ws" THEN streamed_turn_over ELSE pc[p] = "Idle"

\* the conversation of the task's turn carries the time its bump has bound
bumped(p) ==
    \E c \in find_by_id(conversation_id[p]) : c.updated_at = bind_now[p]

\* C12: when a turn is over and its assistant message is in the store, the
\* turn has succeeded with that message whether the bump of updated_at has
\* failed or not: chat's response is Ok with the message, and the streaming
\* session (client connected throughout) has sent stream_end with the
\* message's id as its last event and no error event.
C12_BumpFailureNotSurfaced ==
    \A p \in Procs :
        (turn_over(p) /\ assistant_message[p] # NoMessage /\ reply_stored(p))
        => IF p = "ws"
           THEN client_stayed =>
                  /\ turn_events[Len(turn_events)] =
                        StreamEnd(assistant_message[p].id, full_content)
                  /\ \A i \in DOMAIN turn_events : turn_events[i].type # "error"
           ELSE /\ response[p].status = 200
                /\ response[p].error = NoError
                /\ response[p].message = assistant_message[p]
                /\ response[p].conversation_id = conversation_id[p]

\* C12 witness: a streamed turn of at least one fragment has ended, its reply
\* is stored and its bump has failed (the stored conversation does not carry
\* the time the bump had bound)
C12_Witness ==
    /\ turn_over("ws") /\ assistant_message["ws"] # NoMessage
    /\ reply_stored("ws")
    /\ ~bumped("ws")
    /\ client_stayed
    /\ Len(generated) > 0

(***************************************************************************)
(* Properties of the failures of a streaming session.                      *)
(***************************************************************************)
\* prepare_chat has returned an error for the task's request
prepare_failed(p) == prepared[p].kind \notin {"NotCalled", "Pending", "Ok"}

\* the last frame was a request that could not be parsed
parse_failed == frame = "invalid"

\* the generation of the turn has failed or panicked, and was joined
generation_failed ==
    streamed_turn_over /\ stream_result \in {"Err", "Panic"}

\* the generation of the turn has ended well and its reply could not be saved
save_failed ==
    streamed_turn_over /\ stream_result = "Ok" /\ ~reply_stored("ws")

\* the events of the given type among the turn's events
events_of(type) == SelectSeq(turn_events, LAMBDA e : e.type = type)

\* C13: after every failure of a streaming turn (a request that does not
\* parse, prepare_chat returning an error, the generation failing or
\* panicking, the reply not being saved) the client (connected throughout) has
\* received exactly one error event for the turn, as the turn's last event,
\* and no stream_end; the session is awaiting the next request, which it
\* accepts when the client sends one; the session ends only when the client
\* has gone or sends no more; and a turn that then succeeds yields
\* stream_start, its chunks and stream_end as a first turn does.
C13_FailureKeepsSession ==
    /\ (parse_failed \/ prepare_failed("ws") \/ generation_failed \/ save_failed)
       => /\ pc["ws"] \in {"AwaitingRequest", "Closed"}
          /\ client_stayed =>
                /\ Len(events_of("error")) = 1
                /\ turn_events[Len(turn_events)].type = "error"
                /\ events_of("stream_end") = <<>>
          /\ (pc["ws"] = "AwaitingRequest" /\ connected /\ left["ws"] > 0)
                => ENABLED WsRequest
    /\ pc["ws"] = "Closed" => (~connected \/ left["ws"] = 0)
    /\ (streamed_turn_over /\ stream_result = "Ok" /\ client_stayed
            /\ reply_stored("ws"))
       => turn_events =
             <<StreamStart(conversation_id["ws"])>>
             \o chunk_events(generated)
             \o <<StreamEnd(assistant_message["ws"].id, full_content)>>

\* C13 witness: the second request of a session has been answered with its
\* chunks and stream_end after the first one failed (prepare_chat was called
\* twice and the store holds one assistant message)
C13_Witness ==
    /\ turn["ws"] = 2
    /\ streamed_turn_over /\ stream_result = "Ok" /\ client_stayed
    /\ reply_stored("ws")
    /\ Len(assistant_rows(messages)) = 1
    /\ Len(generated) > 0

\* C14: when the generation of a streamed turn has ended well and saving the
\* accumulated reply has failed, the client (connected throughout) has
\* received stream_start, the chunk events of the fragments generated, and
\* then one error event, but no stream_end; and table messages is what it was
\* before the turn plus the turn's user message, without a row for the reply.
C14_ReplyNotSaved ==
    save_failed
    => /\ client_stayed =>
             turn_events =
                <<StreamStart(conversation_id["ws"])>>
                \o chunk_events(generated)
                \o <<ErrorEvent("Failed to save response")>>
       /\ events_of("stream_end") = <<>>
       /\ messages = Append(before["ws"].messages,
                            message_row(user_message["ws"]))
       /\ \A i \in DOMAIN messages : messages[i].id # assistant_message["ws"].id

\* C14 witness: the reply of a turn of two fragments could not be saved
C14_Witness ==
    /\ save_failed
    /\ client_stayed
    /\ Len(generated) = 2
    /\ assistant_message["ws"].content = concatenation(generated)

\* C15: after a frame that does not parse as a request, and until the next
\* frame, prepare_chat has not been called, the store (conversations,
\* messages, uuids generated) is as it was when the frame arrived, the events
\* of the frame are one error event and nothing else (no stream_start), no
\* generation task has been spawned, and the session awaits the next request
\* (or has ended because the client has gone or sends no more).
C15_ParseFailure ==
    parse_failed
    => /\ prepared["ws"] = AppError("NotCalled")
       /\ the_store = before["ws"]
       /\ turn_events = <<ErrorEvent("Invalid request")>>
       /\ stream_pc = "none"
       /\ chan = <<>>
       /\ pc["ws"] \in {"AwaitingRequest", "Closed"}
       /\ pc["ws"] = "Closed" => (~connected \/ left["ws"] = 0)

\* C15 witness: a frame that does not parse has arrived after a turn that
\* left messages in the store
C15_Witness ==
    /\ parse_failed
    /\ Len(messages) = 2
    /\ pc["ws"] = "AwaitingRequest"

\* C16: when prepare_chat has returned an error in a streaming session
\* (validation, or a failing store call), the events of the request are one
\* error event carrying the error (client connected throughout) and no
\* stream_start, stream_chunk or stream_end; no generation task has been
\* spawned and the model has not been called; and the session awaits the
\* next request (or has ended because the client has gone or sends no more).
C16_PrepareFailureInSession ==
    prepare_failed("ws")
    => /\ client_stayed => turn_events = <<ErrorEvent(prepared["ws"].kind)>>
       /\ events_of("stream_start") = <<>>
       /\ events_of("stream_chunk") = <<>>
       /\ events_of("stream_end") = <<>>
       /\ stream_pc = "none"
       /\ chan = <<>>
       /\ ~agent_call["ws"].made
       /\ pc["ws"] \in {"AwaitingRequest", "Closed"}
       /\ pc["ws"] = "Closed" => (~connected \/ left["ws"] = 0)

\* C16 witness: a store call of prepare_chat has failed after the user message
\* was saved (the history could not be loaded), the client still connected
C16_Witness ==
    /\ prepared["ws"].kind = "DatabaseQueryFailed"
    /\ user_message["ws"] # NoMessage
    /\ message_row(user_message["ws"]) \in stored_messages
    /\ connected

(***************************************************************************)
(* Properties of the timestamps.                                           *)
(***************************************************************************)
\* the rows of a conversation in the order they were inserted
persistence_order(cid) ==
    SelectSeq(messages, LAMBDA r : r.conversation_id = cid)

\* C17: for every conversation, the only list of rows the store can return
\* (ORDER BY created_at ASC) is the list of its rows in the order they were
\* inserted.
C17_StoreOrderIsPersistenceOrder ==
    \A c \in conversations :
        order_by_created_at(conversation_rows(c.id)) = {persistence_order(c.id)}

\* the conversation of the task's turn was in the store when the request came
existing_conversation(p) ==
    \E c \in before[p].conversations : c.id = conversation_id[p]

\* C18: updated_at follows every message saved.  When prepare_chat has
\* returned a ChatContext for a conversation that existed before the request,
\* the conversation's updated_at is at least the created_at of the user
\* message it saved; and when a turn is over with its assistant message saved
\* and the bump's UPDATE done, updated_at is at least the created_at of the
\* assistant message.
C18_BumpOnEveryMessage ==
    \A p \in Procs :
        /\ (prepared[p] = NoError /\ existing_conversation(p))
           => \A c \in find_by_id(conversation_id[p]) :
                 c.updated_at >= user_message[p].created_at
        /\ (turn_over(p) /\ assistant_message[p] # NoMessage /\ reply_stored(p)
               /\ bumped(p))
           => \A c \in find_by_id(conversation_id[p]) :
                 c.updated_at >= assistant_message[p].created_at

\* C19: no step lowers the updated_at of a conversation.
C19_UpdatedAtNeverDecreases ==
    [][\A c \in conversations : \A d \in conversations' :
          d.id = c.id => d.updated_at >= c.updated_at]_vars

(***************************************************************************)
(* Properties of the references between the tables.                        *)
(***************************************************************************)
\* the ids of the conversations in the store
conversation_ids == {c.id : c \in conversations}

\* C20: in every state every row of table messages carries the id of a row of
\* table conversations; and every step that inserts a message inserts it
\* under a conversation that was in the store before the step, an assistant
\* message under the conversation id of a ChatContext prepare_chat returned.
C20_MessagesReferenceConversations ==
    /\ [](\A i \in DOMAIN messages : messages[i].conversation_id \in conversation_ids)
    /\ [][\A i \in DOMAIN messages' :
             i > Len(messages)
             => /\ messages'[i].conversation_id \in conversation_ids
                /\ messages'[i].role = "ASSISTANT"
                      => \E p \in Procs :
                            /\ prepared[p] = NoError
                            /\ conversation_id[p] = messages'[i].conversation_id]_vars

\* C20 witness: the reply of a turn is stored under a conversation the turn
\* created under an id the client made up
C20_Witness ==
    \E p \in Procs :
        /\ assistant_message[p] # NoMessage
        /\ reply_stored(p)
        /\ ~existing_conversation(p)
        /\ request[p].conversation_id = Some(GhostId)

(***************************************************************************)
(* Properties of what the turns leave in the store.                        *)
(***************************************************************************)
\* C21: every row of table messages has a content that is not empty and no
\* longer than the longest utterance prepare_chat lets through, whatever the
\* generation of the turn did and however many fragments it yielded.
C21_ContentNonEmptyBounded ==
    \A m \in stored_messages :
        /\ m.content # <<>>
        /\ chars_count(m.content) <= MAX_MESSAGE_LENGTH

(***************************************************************************)
(* The transport status of a failed POST /api/chat.                        *)
(***************************************************************************)
\* the status the error kinds are to give
expected_status(kind) ==
    CASE kind \in {"EmptyField", "FieldTooLong"} -> 400
      [] kind \in {"ConversationNotFound", "RecordNotFound"} -> 404
      [] kind = "OllamaUnavailable" -> 503
      [] OTHER -> 500

\* C22: error_response chooses the status from the error's kind alone, 400 for
\* the validation errors, 404 for the not-found errors, 503 for an unavailable
\* backend and 500 for every other variant, whatever the error carries; and
\* every failed POST /api/chat is answered with the status of the error it
\* failed with, an inference failure with the status of what map_rig_error
\* made of it.
C22_StatusFromErrorKind ==
    /\ \A kind \in AppErrorKinds :
          \A max \in {0, MAX_MESSAGE_LENGTH} :
          \A actual \in {0, MAX_MESSAGE_LENGTH + 1} :
             error_response([kind |-> kind, max_length |-> max,
                             actual_length |-> actual]).status
                = expected_status(kind)
    /\ response["rest"].error # NoError
          => /\ response["rest"].error.kind \in AppErrorKinds
             /\ response["rest"].status = expected_status(response["rest"].error.kind)
    /\ (pc["rest"] = "Idle" /\ agent_call["rest"].result \in InferenceErrors)
          => response["rest"].status = expected_status(agent_call["rest"].result)

\* C22 witness: a POST /api/chat has been answered 503 because the backend
\* was unavailable
C22_Witness ==
    /\ response["rest"].status = 503
    /\ response["rest"].error.kind = "OllamaUnavailable"
    /\ agent_call["rest"].made

(***************************************************************************)
(* How prepare_chat resolves the conversation.                             *)
(***************************************************************************)
\* the request carries a conversation id the store did not hold when it came
unknown_id(p) ==
    /\ prepare_called(p)
    /\ request[p].conversation_id # None
    /\ \A c \in before[p].conversations : c.id # request[p].conversation_id[1]

\* C23: when the request carries a conversation id the store does not hold
\* (the utterance being valid), prepare_chat does not fail with a not-found
\* error; when it returns Ok the ChatContext carries that same id, a
\* conversation with that id is in the store and the turn's user message is
\* stored under it.
C23_UnknownIdIsCreated ==
    \A p \in Procs :
        (unknown_id(p) /\ validate(request[p].message) = NoError)
        => /\ ~is_not_found(prepared[p])
           /\ prepared[p] = NoError
                 => /\ conversation_id[p] = request[p].conversation_id[1]
                    /\ find_by_id(request[p].conversation_id[1]) # {}
                    /\ message_row(user_message[p]) \in stored_messages
                    /\ user_message[p].conversation_id
                          = request[p].conversation_id[1]
                    /\ user_message[p].content = request[p].message

\* C23 witness: prepare_chat has returned Ok for a request under an id the
\* client made up, streamed or not
C23_Witness ==
    \E p \in Procs :
        /\ unknown_id(p)
        /\ prepared[p] = NoError
        /\ before[p].conversations # {}
        /\ pc[p] \in {"Starting", "agent_chat"}

\* C24: a step inserts a conversation only for a request that carried no
\* conversation id, and then under the id generated for that request, which
\* no conversation the store held when the request came has.
C24_CreatedOnlyWithoutId ==
    [][\A c \in conversations' :
          c.id \notin conversation_ids
          => \E p \in Procs :
                /\ request[p].conversation_id = None
                /\ conversation_id[p] = c.id
                /\ \A d \in before[p].conversations : d.id # c.id]_vars

(***************************************************************************)
(* The title of a conversation prepare_chat creates.                       *)
(***************************************************************************)
\* prepare_chat has built a conversation for the request and saved it
created_conversation(p) ==
    /\ conv[p] # NoConversation
    /\ find_by_id(conv[p].id) # {}

\* the title the utterance is to give: the utterance, or its first
\* TITLE_CHARS characters and an ellipsis
title_of_utterance(message) ==
    IF chars_count(message) <= TITLE_CHARS THEN message
    ELSE push_str(chars_take(message, TITLE_CHARS), Text("DOTS", 1))

\* C25 as stated: the title of a conversation prepare_chat creates is the
\* utterance when the utterance has at most 60 characters, otherwise its
\* first 60 characters followed by an ellipsis.
C25_TitleFromUtterance ==
    \A p \in Procs :
        created_conversation(p)
        => \A c \in find_by_id(conv[p].id) :
              c.title = title_of_utterance(request[p].message)

\* C25 amended: the title of a conversation prepare_chat creates is cut from
\* the utterance without its leading and trailing whitespace: it is the
\* trimmed utterance when that has at most 60 characters, otherwise the first
\* 60 characters of the trimmed utterance followed by one ellipsis character
\* (61 characters in all); the row saved carries that title.
C25_TitleFromTrimmedUtterance ==
    \A p \in Procs :
        created_conversation(p)
        => LET t == trim(request[p].message)
               title == conv[p].title
           IN  /\ chars_count(t) <= TITLE_CHARS => title = t
               /\ chars_count(t) > TITLE_CHARS
                     => /\ chars_count(title) = TITLE_CHARS + 1
                        /\ chars_take(title, TITLE_CHARS) = chars_take(t, TITLE_CHARS)
                        /\ title[Len(title)] = Run("DOTS", 1)
               /\ \A c \in find_by_id(conv[p].id) : c.title = title

\* C25 witness: a conversation is in the store whose title was cut from an
\* utterance of more than 60 characters
C25_Witness ==
    \E p \in Procs :
        /\ created_conversation(p)
        /\ conv[p] \in conversations
        /\ chars_count(trim(request[p].message)) > TITLE_CHARS

(***************************************************************************)
(* The unit of the length validation.                                      *)
(***************************************************************************)
\* C26: the length prepare_chat holds against MAX_MESSAGE_LENGTH is the
\* utterance's number of characters: an utterance of at most 8000 characters
\* is not turned away as too long, and the actual_length of a FieldTooLong is
\* the utterance's character count.
C26_LengthInCharacters ==
    \A p \in Procs :
        prepare_called(p)
        => /\ chars_count(request[p].message) <= MAX_MESSAGE_LENGTH
                 => prepared[p].kind # "FieldTooLong"
           /\ prepared[p].kind = "FieldTooLong"
                 => prepared[p].actual_length = chars_count(request[p].message)

(***************************************************************************)
(* Saving a message and reading the conversation back.                     *)
(***************************************************************************)
\* the row with id a was inserted before the row with id b
saved_before(a, b) ==
    \E x, y \in DOMAIN messages :
        x < y /\ messages[x].id = a /\ messages[y].id = b

\* every list find_by_conversation_id can return holds m with its id, role
\* and content, after every message saved before it
read_back(m) ==
    \A list \in find_by_conversation_id(m.conversation_id) :
        \E i \in DOMAIN list :
            /\ list[i].id = m.id
            /\ list[i].role = m.role
            /\ list[i].content = m.content
            /\ \A j \in DOMAIN list : saved_before(list[j].id, m.id) => j < i

\* C27: every role survives the store's text encoding, and once a task has
\* saved a message, reading the message list of its conversation returns the
\* message with the same id, role and content, placed after every message
\* saved in that conversation before it.
C27_SaveThenReadRoundTrip ==
    /\ \A r \in MessageRole : try_from(as_str(r)) = r
    /\ \A p \in Procs :
          /\ (user_message[p] # NoMessage
                /\ message_row(user_message[p]) \in stored_messages)
             => read_back(user_message[p])
          /\ (assistant_message[p] # NoMessage /\ reply_stored(p))
             => read_back(assistant_message[p])

(***************************************************************************)
(* The end of a session.                                                   *)
(***************************************************************************)
\* C28: the step that ends the session, taken when the connection closes
\* while the session awaits a request, sends no event and writes nothing to
\* the store; and a session that has ended stays ended and sends nothing.
C28_CloseIsSilent ==
    [][/\ (pc["ws"] = "AwaitingRequest" /\ pc'["ws"] = "Closed")
            => UNCHANGED <<conversations, messages, turn_events>>
       /\ pc["ws"] = "Closed"
            => /\ pc'["ws"] = "Closed"
               /\ UNCHANGED turn_events]_vars

\* C28 witness: the session has ended after the client went away between two
\* requests, a turn completed before
C28_Witness ==
    /\ pc["ws"] = "Closed"
    /\ disconnected_in = "between turns"
    /\ assistant_message["ws"] # NoMessage
    /\ reply_stored("ws")

(***************************************************************************)
(* The two writes of a turn.                                               *)
(***************************************************************************)
\* how many rows of table messages have this id
occurrences(id) == Cardinality({i \in DOMAIN messages : messages[i].id = id})

\* the rows inserted since the task's request came
rows_since(p) ==
    SubSeq(messages, Len(before[p].messages) + 1, Len(messages))

\* no other task has had a request: every row since is this task's
alone(p) == \A q \in Procs \ {p} : turn[q] = 0

\* C29: for a turn prepare_chat accepted, whatever became of it, the user
\* message is in the store exactly once, the assistant message of the turn at
\* most once and then inserted after the user message; with no other task
\* writing, the rows the turn has inserted are the user message alone (the
\* conversation then ends in an unanswered user message) or the user message
\* followed by the turn's one assistant message.
C29_UserOnceThenAtMostOneReply ==
    \A p \in Procs :
        prepared[p] = NoError
        => /\ occurrences(user_message[p].id) = 1
           /\ message_row(user_message[p]) \in stored_messages
           /\ assistant_message[p] # NoMessage
                 => /\ occurrences(assistant_message[p].id) <= 1
                    /\ reply_stored(p)
                          => saved_before(user_message[p].id,
                                          assistant_message[p].id)
           /\ alone(p)
                 => \/ rows_since(p) = <<message_row(user_message[p])>>
                    \/ /\ assistant_message[p] # NoMessage
                       /\ rows_since(p) = <<message_row(user_message[p]),
                                            message_row(assistant_message[p])>>

\* C29 witness: an accepted streamed turn is over after the client went away
\* in mid-stream and the save of the reply failed: the conversation ends in
\* the turn's user message
C29_Witness ==
    /\ prepared["ws"] = NoError
    /\ streamed_turn_over
    /\ disconnected_in = "mid-stream"
    /\ assistant_message["ws"] # NoMessage
    /\ ~reply_stored("ws")
    /\ messages[Len(messages)] = message_row(user_message["ws"])

(***************************************************************************)
(* The order of prepare_chat's validations.                                *)
(***************************************************************************)
\* the call has not come to the store: nothing it reads or builds on the way
\* is there, no uuid was generated, the store is as it was
store_untouched(p) ==
    /\ conv[p] = NoConversation
    /\ user_message[p] = NoMessage
    /\ history[p] = <<>>
    /\ ~agent_call[p].made
    /\ alone(p) => the_store = before[p]

\* C30: an utterance that is empty after trimming and also longer than
\* MAX_MESSAGE_LENGTH is turned away with EmptyField, not FieldTooLong; and
\* whenever prepare_chat has returned a validation error it has not come to
\* the store: a failure of the store is never what an invalid utterance gets.
C30_EmptinessCheckedFirst ==
    \A p \in Procs :
        prepare_called(p)
        => /\ (trim(request[p].message) = <<>>
                 /\ len(request[p].message) > MAX_MESSAGE_LENGTH)
                 => prepared[p] = AppError("EmptyField")
           /\ validate(request[p].message) # NoError
                 => is_validation(prepared[p])
           /\ is_validation(prepared[p]) => store_untouched(p)

\* C30 witness: a whitespace-only utterance longer than the maximum has been
\* turned away as empty
C30_Witness ==
    \E p \in Procs :
        /\ prepare_called(p)
        /\ trim(request[p].message) = <<>>
        /\ len(request[p].message) > MAX_MESSAGE_LENGTH
        /\ prepared[p].kind = "EmptyField"

(***************************************************************************)
(* The events of a streamed turn and the life of its two tasks.            *)
(***************************************************************************)
\* C31: for a request of the streaming session whose prepare_chat returned
\* Ok: as long as the session has not sent stream_start no event of the turn
\* has been sent and the generation task is not spawned; afterwards the
\* client (connected throughout) has received exactly one stream_start, as
\* the first event of the turn, before every chunk, and in any case no second
\* one; its conversation_id is the one the turn's user message is stored
\* under.
C31_OneStartBeforeChunks ==
    prepared["ws"] = NoError
    => /\ pc["ws"] = "Starting"
             => /\ turn_events = <<>>
                /\ stream_pc = "none"
                /\ ~agent_call["ws"].made
       /\ pc["ws"] # "Starting"
             => /\ Len(events_of("stream_start")) <= 1
                /\ client_stayed => Len(events_of("stream_start")) = 1
                /\ \A i \in DOMAIN turn_events :
                      turn_events[i].type = "stream_start"
                      => /\ i = 1
                         /\ turn_events[i]
                               = StreamStart(user_message["ws"].conversation_id)
                /\ message_row(user_message["ws"]) \in stored_messages

\* C31 witness: the client has received stream_start and a chunk of a turn on
\* the conversation the store held, the generation still running
C31_Witness ==
    /\ prepared["ws"] = NoError
    /\ pc["ws"] = "Streaming"
    /\ stream_pc = "next"
    /\ conversation_id["ws"] = 1
    /\ Len(events_of("stream_start")) = 1
    /\ Len(events_of("stream_chunk")) = 1

\* the terminal events among the turn's events
terminal_events ==
    SelectSeq(turn_events, LAMBDA e : e.type \in {"stream_end", "error"})

\* C32: under a fair scheduler and a generation that ends, a streamed turn
\* that has sent stream_start comes back to awaiting the next request, also
\* when the generation yields more fragments than the channel holds; when it
\* is over the client (connected throughout) has received exactly one terminal
\* event, stream_end or error, as the last event; the session leaves the drain
\* loop only when the generation task has ended and the channel is empty.
C32_StreamedTurnTerminates ==
    /\ (pc["ws"] = "Streaming") ~> (pc["ws"] = "AwaitingRequest")
    /\ []((streamed_turn_over /\ prepared["ws"] = NoError /\ client_stayed)
            => /\ Len(terminal_events) = 1
               /\ turn_events[Len(turn_events)] = terminal_events[1])
    /\ [][(pc["ws"] = "Streaming" /\ pc'["ws"] # "Streaming")
            => (stream_pc = "done" /\ chan = <<>>)]_vars

\* C32 witness: a turn whose generation had to wait for room in the channel
\* is over, the client there, stream_end received after all the chunks
C32_Witness ==
    /\ streamed_turn_over
    /\ client_stayed
    /\ Len(generated) = CHANNEL_CAPACITY + ExtraFragments
    /\ Len(terminal_events) = 1
    /\ turn_events[Len(turn_events)].type = "stream_end"
    /\ Len(turn_events) = CHANNEL_CAPACITY + ExtraFragments + 2

\* the generation task of the connection is running
producer_active == stream_pc \in {"spawned", "next", "send"}

\* the session reads a frame in this step
frame_read == left'["ws"] # left["ws"]

\* C33: on the connection a generation task runs only while the session is
\* in its drain loop, and what was pushed into the channel is what the session
\* has taken followed by what the channel holds: one writer, one reader.  The
\* session reads a frame only when it awaits a request, when no generation
\* task runs, the channel is empty and the last event of the turn before, if
\* the turn sent any, is its terminal event; requests are counted one by one
\* in the order they are read; and within a turn events are only added at the
\* end of the turn's events.
C33_OneTurnAtATime ==
    /\ [](producer_active => pc["ws"] = "Streaming")
    /\ [](pushed = taken \o chan /\ Len(pushed) <= Len(generated))
    /\ [][frame_read
            => /\ pc["ws"] = "AwaitingRequest"
               /\ ~producer_active
               /\ chan = <<>>
               /\ turn_events # <<>>
                     => turn_events[Len(turn_events)].type
                           \in {"stream_end", "error"}
               /\ turn'["ws"] \in {turn["ws"], turn["ws"] + 1}]_vars
    /\ [][~frame_read
            => /\ turn'["ws"] = turn["ws"]
               /\ \/ turn_events' = turn_events
                  \/ \E e \in {turn_events'[Len(turn_events')]} :
                        turn_events' = Append(turn_events, e)]_vars

\* C33 witness: the generation of a session's second request is running, the
\* first request's turn having ended with its reply stored
C33_Witness ==
    /\ turn["ws"] = 2
    /\ pc["ws"] = "Streaming"
    /\ producer_active
    /\ Len(assistant_rows(messages)) = 1
    /\ Len(turn_events) >= 2

(***************************************************************************)
(* What the turns do to the conversations.                                 *)
(***************************************************************************)
\* C34: no step deletes a conversation or changes the id, the title or the
\* created_at of one: every conversation of the store is there after the
\* step with these three fields as they were, and no second row of its id has
\* appeared; a step changes at most updated_at.
C34_ConversationsOnlyBumped ==
    [][\A c \in conversations :
          /\ \E d \in conversations' :
                /\ d.id = c.id
                /\ d.title = c.title
                /\ d.created_at = c.created_at
          /\ Cardinality({d \in conversations' : d.id = c.id})
                = Cardinality({d \in conversations : d.id = c.id})]_vars

\* C34 witness: a turn on the conversation the store held has bumped its
\* updated_at; title and created_at are the old ones
C34_Witness ==
    \E c \in conversations :
        /\ c.id = 1
        /\ c.updated_at > c.created_at
        /\ c.title = Text("b", 2)
        /\ c.created_at = 0

(***************************************************************************)
(* Turns that run at the same time.                                        *)
(***************************************************************************)
\* C35: the history of the ChatContext prepare_chat returned holds only
\* messages of the turn's conversation that were inserted before the turn's
\* own user message, in the order they were inserted.
C35_HistoryIsWhatCameBefore ==
    \A p \in Procs :
        prepared[p] = NoError
        => /\ \A i \in DOMAIN history[p] :
                 /\ history[p][i].conversation_id = conversation_id[p]
                 /\ saved_before(history[p][i].id, user_message[p].id)
           /\ \A i, j \in DOMAIN history[p] :
                 i < j => saved_before(history[p][i].id, history[p][j].id)

\* prepare has attempted conversation_repo.save for the conversation it built
attempted_save(p) == conv[p] # NoConversation /\ pc[p] # "save_conversation"

\* C36: the lookup-then-create of prepare is atomic among concurrent calls
\* that carry the same conversation id, one that does not exist yet: a save
\* of the conversation is attempted at most once per id, and every such call
\* returns a ChatContext, its user message persisted.
C36_CreateIsAtomic ==
    /\ \A p, q \in Procs :
          attempted_save(p) /\ attempted_save(q) /\ conv[p].id = conv[q].id
             => p = q
    /\ \A p \in Procs :
          conv[p] # NoConversation
             => /\ ~prepare_failed(p)
                /\ prepared[p] = NoError
                      => message_row(user_message[p]) \in stored_messages

\* C37: in the client, once send_message has set is_streaming, is_streaming
\* returns to false whatever becomes of the WebSocket it opened (stream_end, an
\* error event, a failure to connect, a connection error, a close without a
\* terminal event), so the input is not disabled forever; and no second
\* stream is started while is_streaming is true.
C37_StreamingEnds ==
    /\ [](is_streaming => <>(~is_streaming))
    /\ [][Len(sockets') > Len(sockets) => ~is_streaming]_vars

\* the conversation the stream of socket s belongs to: the one its
\* stream_start event names
stream_conversation(s) == sockets[s].received[1].conversation_id

\* the texts of the chunks received over socket s, in order
RECURSIVE chunk_contents(_)
chunk_contents(events) ==
    IF events = <<>> THEN <<>>
    ELSE IF Head(events).type = "stream_chunk"
         THEN <<Head(events).content>> \o chunk_contents(Tail(events))
         ELSE chunk_contents(Tail(events))

\* onmessage has just handled an event of the given type on socket s
delivered(s, type) ==
    /\ Len(sockets'[s].received) = Len(sockets[s].received) + 1
    /\ sockets'[s].received[Len(sockets'[s].received)].type = type

\* the view shows conversation cid: it is the active one, and every message
\* of the list is one of its messages
displays(list, active, cid) ==
    /\ active = Some(cid)
    /\ \A i \in DOMAIN list : list[i].conversation_id = cid

\* C38: in the client, a chunk of a stream is added only to the view of the
\* conversation the stream belongs to, and on stream_end one assistant message
\* is appended to the displayed list of that conversation, its content the
\* concatenation of the chunks received; also when select_conversation or
\* New Chat is invoked while the stream is in flight.
C38_StreamStaysInItsConversation ==
    [][\A s \in DOMAIN sockets :
          /\ delivered(s, "stream_chunk") /\ streaming_text' # streaming_text
                => displays(app_messages, active_conversation,
                            stream_conversation(s))
          /\ delivered(s, "stream_end")
                => /\ app_messages' =
                         Append(app_messages,
                                ClientMessage(stream_conversation(s), "assistant",
                                   concatenation(chunk_contents(sockets[s].received))))
                   /\ displays(app_messages', active_conversation',
                               stream_conversation(s))]_vars

====
